---- MODULE Spec2Model ----
(***************************************************************************)
(* Model of the lesson pipeline of skillence_ai:                           *)
(*   agents/token_utils.py       estimate_tokens, validate_prompt_budget   *)
(*   agents/lesson_generator.py  LessonRequest, generate_lesson            *)
(*   api/services/lessons.py     _compute_request_hash, create_lesson      *)
(*   storage/models.py           Request, Lesson                           *)
(*   storage/base.py             get_session                               *)
(*   agents/quality_utils.py     parse_text_stats, the readability score   *)
(*   agents/formatter.py         format_lesson                             *)
(*   api/main.py                 get_lesson_endpoint                       *)
(*                                                                         *)
(* Strings are sequences of one-character strings.  The remote capability  *)
(* (client.chat.completions.create) is a nondeterministic outcome per      *)
(* call.  A create is split at its two database transactions, which are    *)
(* the points where concurrent requests interleave.                        *)
(***************************************************************************)
EXTENDS Integers, Sequences, FiniteSets, TLC

(***************************************************************************)
(* Bounds of the model.                                                    *)
(***************************************************************************)
MaxSubjectLen == 4
MaxCreates == 3
MaxListLen == 2

Procs == {1, 2}

(***************************************************************************)
(* Strings.                                                                *)
(***************************************************************************)
Whitespace == {" ", "\n"}
\* the characters of a subject: a letter in both cases and the space
Chars == {"a", "A", " "}

\* c * n
Rep(c, n) == [i \in 1..n |-> c]

RECURSIVE StringsUpTo(_)
StringsUpTo(n) ==
    IF n = 0 THEN {<<>>}
    ELSE LET shorter == StringsUpTo(n - 1)
         IN  shorter \cup {Append(s, c) : s \in {t \in shorter : Len(t) = n - 1}, c \in Chars}

\* the strings of at most n characters of chars
RECURSIVE StringsOver(_, _)
StringsOver(chars, n) ==
    IF n = 0 THEN {<<>>}
    ELSE LET shorter == StringsOver(chars, n - 1)
         IN  shorter \cup {Append(s, c) : s \in {t \in shorter : Len(t) = n - 1}, c \in chars}

\* str.lower() on one character
LowerChar(c) == CASE c = "A" -> "a" [] OTHER -> c

\* str.lower()
Lower(s) == [i \in DOMAIN s |-> LowerChar(s[i])]

\* str.strip(): drop leading and trailing whitespace
RECURSIVE LStrip(_)
LStrip(s) == IF s # <<>> /\ Head(s) \in Whitespace THEN LStrip(Tail(s)) ELSE s

RECURSIVE RStrip(_)
RStrip(s) ==
    IF s # <<>> /\ s[Len(s)] \in Whitespace THEN RStrip(SubSeq(s, 1, Len(s) - 1)) ELSE s

Strip(s) == RStrip(LStrip(s))

\* the maximal runs of characters of s that are not in seps, in order.
\* Written without recursion over the characters, for subjects of more than
\* SUBJECT_MAX_LENGTH characters.
Runs(s, seps) ==
    LET starts == {i \in DOMAIN s : s[i] \notin seps /\ (i = 1 \/ s[i - 1] \in seps)}
        Nth(k) == CHOOSE i \in starts : Cardinality({j \in starts : j <= i}) = k
        EndOf(i) == CHOOSE j \in i..Len(s) :
                        /\ \A m \in i..j : s[m] \notin seps
                        /\ (j = Len(s) \/ s[j + 1] \in seps)
    IN  [k \in 1..Cardinality(starts) |-> SubSeq(s, Nth(k), EndOf(Nth(k)))]

\* str.split()
Split(s) == Runs(s, Whitespace)

\* " ".join(words)
RECURSIVE Join(_)
Join(words) ==
    IF words = <<>> THEN <<>>
    ELSE IF Len(words) = 1 THEN words[1]
    ELSE words[1] \o <<" ">> \o Join(Tail(words))

(***************************************************************************)
(* LessonRequest (agents/lesson_generator.py).                             *)
(***************************************************************************)
SUBJECT_MIN_LENGTH == 2
SUBJECT_MAX_LENGTH == 200
Audiences == {"enfant", "lycéen", "adulte"}
Durations == {"short", "medium", "long"}

\* field_validator normalize_subject: " ".join(value.split())
normalize_subject(value) == Join(Split(value))

\* LessonRequest(...) succeeds: Field(min_length, max_length) on the raw
\* value, the two Literal fields, then the validator's own length check.
LessonRequestValid(raw) ==
    /\ Len(raw.subject) >= SUBJECT_MIN_LENGTH
    /\ Len(raw.subject) <= SUBJECT_MAX_LENGTH
    /\ raw.audience \in Audiences
    /\ raw.duration \in Durations
    /\ Len(normalize_subject(raw.subject)) >= 2

\* the constructed LessonRequest
LessonRequest(raw) ==
    [subject |-> normalize_subject(raw.subject),
     audience |-> raw.audience,
     duration |-> raw.duration]

(***************************************************************************)
(* _compute_request_hash (api/services/lessons.py).  The SHA-256 digest of *)
(* the sorted-key JSON is represented by the serialized triple itself: the *)
(* digest is taken to be collision-free.  Audience and duration are        *)
(* lower-case literals without whitespace, which strip().lower() leaves as *)
(* they are.                                                               *)
(***************************************************************************)
\* variant: the subject is hashed without .lower()
compute_request_hash_keeps_case(request) ==
    [subject |-> Strip(request.subject),
     audience |-> request.audience,
     duration |-> request.duration]

_compute_request_hash(request) ==
    [subject |-> Lower(Strip(request.subject)),
     audience |-> request.audience,
     duration |-> request.duration]

(***************************************************************************)
(* Token budget (agents/token_utils.py).  A text is represented by the     *)
(* number of characters it has after re.sub(r'\s+', ' ', text.strip()).    *)
(***************************************************************************)
MAX_TOKENS_PER_REQUEST == 2000
TOKEN_SAFETY_MARGIN == 200
MAX_PROMPT_TOKENS == MAX_TOKENS_PER_REQUEST - TOKEN_SAFETY_MARGIN

\* estimate_tokens: int((len(cleaned) // 4) * 1.2); for a whole number n,
\* int(n * 1.2) in double precision is (6 n) div 5 over the range modelled.
\* variant: the quotient by 4 is not truncated before the margin is applied
estimate_tokens_exact_quotient(cleanedLen) ==
    IF cleanedLen = 0 THEN 0 ELSE ((cleanedLen * 6) \div 20)

estimate_tokens(cleanedLen) ==
    IF cleanedLen = 0 THEN 0 ELSE (((cleanedLen \div 4) * 6) \div 5)

\* re.sub(r'\s+', ' ', s): every run of whitespace becomes one space
RECURSIVE CollapseWhitespace(_)
CollapseWhitespace(s) ==
    IF s = <<>> THEN <<>>
    ELSE IF Head(s) \in Whitespace THEN <<" ">> \o CollapseWhitespace(LStrip(s))
    ELSE <<Head(s)>> \o CollapseWhitespace(Tail(s))

\* estimate_tokens on a text, from its first test to its return
estimate_tokens_of_text(text) ==
    IF text = <<>> \/ Strip(text) = <<>> THEN 0
    ELSE estimate_tokens(Len(CollapseWhitespace(Strip(text))))

\* variant: the estimate is compared with the budget of the whole request
validate_prompt_budget_total(cleanedLen) ==
    /\ cleanedLen # 0
    /\ estimate_tokens(cleanedLen) > MAX_TOKENS_PER_REQUEST

\* validate_prompt_budget raises HTTPException(413) (a context is supplied)
validate_prompt_budget_raises(cleanedLen) ==
    /\ cleanedLen # 0
    /\ estimate_tokens(cleanedLen) > MAX_PROMPT_TOKENS

\* Cleaned length of the prompt of generate_lesson: 481 characters of fixed
\* text and separators around the three interpolated fields.
PROMPT_FIXED_LEN == 481
AudienceLen(a) == 6
DurationLen(d) == CASE d = "short" -> 5 [] d = "medium" -> 6 [] OTHER -> 4

\* variant: the subject is repeated in every line of the expected format
BuildPromptLen_repeats_subject(subjectLen, audience, duration) ==
    PROMPT_FIXED_LEN + 30 * subjectLen + AudienceLen(audience) + DurationLen(duration)

BuildPromptLen(subjectLen, audience, duration) ==
    PROMPT_FIXED_LEN + subjectLen + AudienceLen(audience) + DurationLen(duration)

(***************************************************************************)
(* What one call of client.chat.completions.create can produce.            *)
(*   k = "error"     an exception; err is the set of keyword classes that  *)
(*                   occur in str(exc).lower()                             *)
(*   k = "none", "empty", "blank"   message.content is None, "" or spaces  *)
(*   k = "malformed" text that json.loads rejects                          *)
(*   k = "json"      text that json.loads accepts, with value v            *)
(* usage is resp.usage.total_tokens of a call that answered, 0 when the    *)
(* response reports none.                                                  *)
(***************************************************************************)
FieldNames == <<"title", "objectives", "plan", "content">>
FieldSet == {FieldNames[i] : i \in DOMAIN FieldNames}

\* keyword classes tested on the error message:
\*   "timeout" / "timed out", "rate limit" / "429", "quota" / "402",
\*   "authentication" / "401"
KwTimeout == "timeout"
KwRate == "rate limit"
KwQuota == "quota"
KwAuth == "authentication"

Errors ==
    { {KwTimeout}, {KwRate}, {KwQuota}, {KwAuth}, {},
      {KwRate, KwQuota}, {KwTimeout, KwAuth} }

\* a value found under a key of a JSON object
Absent == [t |-> "absent", n |-> 0]
JsStr(i) == [t |-> "str", n |-> i]
JsNum == [t |-> "num", n |-> 0]
JsList(n) == [t |-> "list", n |-> n]
\* a list of n entries one of which is not a string
JsBadList(n) == [t |-> "badlist", n |-> n]

AllAbsent == [k \in FieldSet |-> Absent]

\* top-level JSON values.  has: for an object its keys, for a string the
\* field names that occur in it, for an array the field names among its
\* elements.
JsonObject(f) == [t |-> "obj", has |-> {k \in FieldSet : f[k].t # "absent"}, f |-> f]
JsonScalar(t) == [t |-> t, has |-> {}, f |-> AllAbsent]

ListValues == {JsList(n) : n \in 0..MaxListLen} \cup {JsBadList(1), JsNum, JsStr(1)}

GoodFields == [title |-> JsStr(1), objectives |-> JsList(1), plan |-> JsList(2), content |-> JsStr(1)]

ObjectValues ==
    {JsonObject([k \in FieldSet |-> IF k \in present THEN GoodFields[k] ELSE Absent]) :
        present \in SUBSET FieldSet}
    \cup
    {JsonObject([title |-> ti, objectives |-> o, plan |-> pl, content |-> c]) :
        ti \in {JsStr(1), JsStr(2), JsNum}, o \in ListValues, pl \in ListValues,
        c \in {JsStr(1), JsNum}}

NonObjectValues ==
    {JsonScalar("num"), JsonScalar("null"), JsonScalar("bool")}
    \cup {[t |-> "str", has |-> h, f |-> AllAbsent] : h \in {{}, {"title"}, FieldSet}}
    \cup {[t |-> "arr", has |-> h, f |-> AllAbsent] : h \in {{}, {"content"}, FieldSet}}

JsonValues == ObjectValues \cup NonObjectValues

ErrorOutcome(e) == [k |-> "error", err |-> e, v |-> JsonScalar("null"), usage |-> 0]
TextOutcome(k) == [k |-> k, err |-> {}, v |-> JsonScalar("null"), usage |-> 0]
JsonOutcome(v) == [k |-> "json", err |-> {}, v |-> v, usage |-> 0]

\* the same response reporting n tokens
WithUsage(o, n) == [o EXCEPT !.usage = n]

GoodJson(i) == JsonObject([GoodFields EXCEPT !.title = JsStr(i)])

Outcomes ==
    {ErrorOutcome(e) : e \in Errors}
    \cup {TextOutcome(k) : k \in {"none", "empty", "blank", "malformed"}}
    \cup {JsonOutcome(v) : v \in JsonValues}
    \cup {WithUsage(TextOutcome("malformed"), 90), WithUsage(JsonOutcome(GoodJson(1)), 150)}

\* reduced sets of outcomes for the runs whose subject is the orchestrator
SeqOutcomes ==
    {ErrorOutcome({KwRate}), WithUsage(TextOutcome("malformed"), 90),
     WithUsage(JsonOutcome(GoodJson(1)), 150)}

FewOutcomes ==
    {ErrorOutcome({KwAuth}), WithUsage(JsonOutcome(GoodJson(1)), 150), JsonOutcome(GoodJson(2))}

\* subjects of the sequential caller: two subjects, each spelled with other
\* letter case and with leading, repeated and trailing whitespace
SeqSubjects ==
    {<<"a", "a">>, <<"a", "A">>, <<" ", "A", "a">>,
     <<"a", " ", "a">>, <<"A", " ", " ", "a">>, <<"a", " ", "A", " ">>}

\* subjects of the concurrent callers: two spellings of one subject and
\* another subject
FewSubjects == {<<"a", "a">>, <<"A", " ", "a">>, <<"a", " ", "a", " ">>}

(***************************************************************************)
(* Results of generate_lesson and create_lesson.                           *)
(***************************************************************************)
\* readability = None
NoReadability == [text |-> <<>>, audience |-> ""]

\* get_readability_summary(validate_readability_for_audience(text, audience)):
\* the summary, by the document and the audience it is computed from
ReadabilitySummaryOf(text, audience) == [text |-> text, audience |-> audience]

NoRet ==
    [kind |-> "none", status |-> 0, detail |-> "", fields |-> {},
     lesson_id |-> 0, title |-> 0, from_cache |-> FALSE, tokens_used |-> 0,
     quality |-> NoReadability]

\* raise HTTPException(status_code = status, detail = ...); detail is the
\* kind of message, fields the field names the message lists
HTTPException(status, detail, fields) ==
    [NoRet EXCEPT !.kind = "http", !.status = status, !.detail = detail, !.fields = fields]

\* an exception that is not an HTTPException leaves generate_lesson
Escaped(name) == [NoRet EXCEPT !.kind = "escape", !.detail = name]

\* variant: the dictionary reports no tokens
CreateResult_no_tokens(id, title, fromCache, tokens) ==
    [NoRet EXCEPT !.kind = "ok", !.lesson_id = id, !.title = title, !.from_cache = fromCache]

\* the dictionary create_lesson returns
CreateResult(id, title, fromCache, tokens) ==
    [NoRet EXCEPT !.kind = "ok", !.lesson_id = id, !.title = title, !.from_cache = fromCache,
                  !.tokens_used = tokens]

NoContent == [title |-> 0, objectives |-> <<>>, plan |-> <<>>, content |-> 0]

\* the entries of a list of n strings, each by its number
Entries(n) == [i \in 1..n |-> i]

\* LessonContent(**data)
LessonContent(v) ==
    [title |-> v.f.title.n, objectives |-> Entries(v.f.objectives.n),
     plan |-> Entries(v.f.plan.n), content |-> v.f.content.n]

NoText == TextOutcome("none")
NoRequest == [subject |-> <<>>, audience |-> "", duration |-> ""]

(***************************************************************************)
(* Readability (agents/quality_utils.py).  A float is the exact fraction   *)
(* num / den with den > 0.                                                 *)
(***************************************************************************)
MaxTextLen == 3

Fraction(num, den) == [num |-> num, den |-> den]
Zero == Fraction(0, 1)

\* FK_THRESHOLDS
FK_THRESHOLDS_swapped ==
    [a \in Audiences |->
        CASE a = "enfant" -> [min |-> 80, max |-> 100]
          [] a = "lycéen" -> [min |-> 40, max |-> 70]
          [] OTHER -> [min |-> 60, max |-> 80]]

FK_THRESHOLDS ==
    [a \in Audiences |->
        CASE a = "enfant" -> [min |-> 80, max |-> 100]
          [] a = "lycéen" -> [min |-> 60, max |-> 80]
          [] OTHER -> [min |-> 40, max |-> 70]]

\* the characters of a text: letters (one vowel, one consonant), whitespace,
\* a sentence end, Markdown marks, and a digit
TextChars == {"a", "b", " ", ".", "#", "*", "1"}

IsVowel(c) == LowerChar(c) = "a"

\* count_syllables: the groups of consecutive vowels, at least 1
count_syllables(word) ==
    IF Len(word) < 2 THEN 1
    ELSE LET groups == {i \in DOMAIN word : IsVowel(word[i]) /\ (i = 1 \/ ~IsVowel(word[i - 1]))}
         IN  IF Cardinality(groups) > 1 THEN Cardinality(groups) ELSE 1

\* re.sub(r'#{1,6}\s*', '', s): every '#' goes, with the whitespace after it
RECURSIVE RemoveHeaders(_)
RemoveHeaders(s) ==
    IF s = <<>> THEN <<>>
    ELSE IF Head(s) = "#" THEN RemoveHeaders(LStrip(Tail(s)))
    ELSE <<Head(s)>> \o RemoveHeaders(Tail(s))

\* re.sub of the runs of format marks (the class of * _ [ ] and the
\* backquote, which no text of the model holds) by nothing
RemoveFormatting(s) == SelectSeq(s, LAMBDA c : c \notin {"*", "_", "[", "]"})

RECURSIVE DropNewlines(_)
DropNewlines(s) == IF s # <<>> /\ Head(s) = "\n" THEN DropNewlines(Tail(s)) ELSE s

\* re.sub(r'\n+', ' ', s)
RECURSIVE NewlinesToSpace(_)
NewlinesToSpace(s) ==
    IF s = <<>> THEN <<>>
    ELSE IF Head(s) = "\n" THEN <<" ">> \o NewlinesToSpace(DropNewlines(s))
    ELSE <<Head(s)>> \o NewlinesToSpace(Tail(s))

RECURSIVE SumSyllables(_)
SumSyllables(words) ==
    IF words = <<>> THEN 0 ELSE count_syllables(Head(words)) + SumSyllables(Tail(words))

NoStats ==
    [word_count |-> 0, sentence_count |-> 0,
     avg_words_per_sentence |-> Zero, avg_syllables_per_word |-> Zero]

\* parse_text_stats
parse_text_stats(text) ==
    IF text = <<>> \/ Strip(text) = <<>> THEN NoStats
    ELSE LET cleaned ==
                 CollapseWhitespace(Strip(NewlinesToSpace(RemoveFormatting(RemoveHeaders(text)))))
             pieces == Runs(cleaned, {".", "!", "?"})
             sentences == SelectSeq([k \in DOMAIN pieces |-> Strip(pieces[k])],
                                    LAMBDA t : t # <<>> /\ Len(t) > 2)
             letterRuns == Runs(cleaned, {cleaned[i] : i \in DOMAIN cleaned} \ {"a", "A", "b"})
             words == SelectSeq(letterRuns, LAMBDA w : Len(w) >= 2)
         IN  IF cleaned = <<>> \/ Len(Strip(cleaned)) < 2 THEN NoStats
             ELSE IF Len(sentences) = 0 THEN NoStats
             ELSE IF Len(words) = 0 THEN [NoStats EXCEPT !.sentence_count = Len(sentences)]
             ELSE [word_count |-> Len(words), sentence_count |-> Len(sentences),
                   avg_words_per_sentence |-> Fraction(Len(words), Len(sentences)),
                   avg_syllables_per_word |-> Fraction(SumSyllables(words), Len(words))]

\* variant: the score is not bounded
clamp_score_unbounded(x) == x

\* max(0.0, min(100.0, x))
clamp_score(x) ==
    IF x.num < 0 THEN Zero
    ELSE IF x.num > 100 * x.den THEN Fraction(100, 1)
    ELSE x

calculate_flesch_kincaid_french_inverted(text) ==
    LET stats == parse_text_stats(text)
        w == stats.avg_words_per_sentence
        y == stats.avg_syllables_per_word
    IN  IF stats.word_count = 0 \/ stats.sentence_count = 0 THEN Zero
        ELSE clamp_score(Fraction(1015 * w.num * y.den + 84600 * y.num * w.den
                                      - 107000 * w.den * y.den,
                                  1000 * w.den * y.den))

\* calculate_flesch_kincaid_french: 207 - 1.015 * w - 84.6 * y, taken over
\* the common denominator 1000 * w.den * y.den
calculate_flesch_kincaid_french(text) ==
    LET stats == parse_text_stats(text)
        w == stats.avg_words_per_sentence
        y == stats.avg_syllables_per_word
    IN  IF stats.word_count = 0 \/ stats.sentence_count = 0 THEN Zero
        ELSE clamp_score(Fraction(207000 * w.den * y.den - 1015 * w.num * y.den
                                      - 84600 * y.num * w.den,
                                  1000 * w.den * y.den))

\* raise ValueError(...)
UnsupportedAudience ==
    [kind |-> "ValueError", flesch_kincaid |-> Zero, stats |-> NoStats,
     is_valid_for_audience |-> FALSE, message |-> "", audience_target |-> ""]

\* validate_readability_for_audience: the ReadabilityScore, its message by
\* its kind
validate_readability_for_audience(text, audience) ==
    IF audience \notin DOMAIN FK_THRESHOLDS THEN UnsupportedAudience
    ELSE LET fk_score == calculate_flesch_kincaid_french(text)
             thresholds == FK_THRESHOLDS[audience]
             is_valid == /\ thresholds.min * fk_score.den <= fk_score.num
                         /\ fk_score.num <= thresholds.max * fk_score.den
         IN  [kind |-> "ok", flesch_kincaid |-> fk_score, stats |-> parse_text_stats(text),
              is_valid_for_audience |-> is_valid,
              message |-> IF is_valid THEN "adapted"
                          ELSE IF fk_score.num < thresholds.min * fk_score.den THEN "too difficult"
                          ELSE "very easy",
              audience_target |-> audience]

(***************************************************************************)
(* format_lesson (agents/formatter.py).  A Markdown document is the        *)
(* sequence of its lines, each by its kind and what it is rendered from;   *)
(* the readability summary of a document for an audience is represented by *)
(* that pair.                                                              *)
(***************************************************************************)
\* the keys of a summary, in the order of the dictionary
SummaryKeys ==
    <<"flesch_kincaid_score", "readability_level", "word_count",
      "is_appropriate_for_audience", "audience_target", "quality_message">>

\* a line: "# text", "", a section heading, "- text", "n. text" or text
Line(kind, n, text) == [kind |-> kind, n |-> n, text |-> text, key |-> "", of |-> NoReadability]
Blank == Line("blank", 0, 0)

\* the line "- key: value" of a summary
MetricLine(key, readability) ==
    [kind |-> "metric", n |-> 0, text |-> 0, key |-> key, of |-> readability]

_build_markdown_numbered_from_zero(c, readability) ==
    <<Line("h1", 0, c.title), Blank, Line("h2 objectifs", 0, 0)>>
        \o [i \in DOMAIN c.objectives |-> Line("bullet", 0, c.objectives[i])]
        \o <<Blank, Line("h2 plan", 0, 0)>>
        \o [i \in DOMAIN c.plan |-> Line("numbered", i - 1, c.plan[i])]
        \o <<Blank, Line("h2 contenu", 0, 0), Line("text", 0, c.content), Blank>>
        \o (IF readability = NoReadability THEN <<>>
            ELSE <<Line("h2 metriques", 0, 0)>>
                     \o [k \in DOMAIN SummaryKeys |-> MetricLine(SummaryKeys[k], readability)]
                     \o <<Blank>>)

\* _build_markdown: the lines that are joined into the document
_build_markdown(c, readability) ==
    <<Line("h1", 0, c.title), Blank, Line("h2 objectifs", 0, 0)>>
        \o [i \in DOMAIN c.objectives |-> Line("bullet", 0, c.objectives[i])]
        \o <<Blank, Line("h2 plan", 0, 0)>>
        \o [i \in DOMAIN c.plan |-> Line("numbered", i, c.plan[i])]
        \o <<Blank, Line("h2 contenu", 0, 0), Line("text", 0, c.content), Blank>>
        \o (IF readability = NoReadability THEN <<>>
            ELSE <<Line("h2 metriques", 0, 0)>>
                     \o [k \in DOMAIN SummaryKeys |-> MetricLine(SummaryKeys[k], readability)]
                     \o <<Blank>>)

\* format_lesson: the base document, its summary, the document with the
\* metrics; validate_readability_for_audience raises for an audience
\* outside FK_THRESHOLDS
format_lesson(c, audience) ==
    IF audience \notin DOMAIN FK_THRESHOLDS
    THEN [kind |-> "ValueError", title |-> 0, markdown |-> <<>>, readability |-> NoReadability]
    ELSE LET markdown_base == _build_markdown(c, NoReadability)
             readability == ReadabilitySummaryOf(markdown_base, audience)
         IN  [kind |-> "ok", title |-> c.title,
              markdown |-> _build_markdown(c, readability),
              readability |-> readability]

(***************************************************************************)
(* GET /v1/lessons/{lesson_id} (api/main.py, api/services/lessons.py).     *)
(***************************************************************************)

\* the fields of LessonDetailResponse, none of which has a default
LessonDetailFields == {"id", "title", "content", "objectives", "plan", "quiz", "created_at"}

\* return None
None ==
    [keys |-> {}, id |-> 0, title |-> 0, content |-> <<>>, objectives |-> <<>>, plan |-> <<>>,
     created_at |-> 0, quality |-> NoReadability]

\* the dictionary built from a Lesson row and the Request row it belongs to
LessonDict(lesson, request) ==
    [keys |-> {"id", "title", "content", "objectives", "plan", "created_at", "quality"},
     id |-> lesson.id, title |-> lesson.title,
     content |-> lesson.content_md, objectives |-> lesson.objectives, plan |-> lesson.plan,
     created_at |-> lesson.created_at,
     quality |-> ReadabilitySummaryOf(lesson.content_md, request.audience)]

NoResponse == [status |-> 0, body |-> None]

\* variant: the 404 raised inside the try block is caught by the handler of
\* unexpected errors
get_lesson_endpoint_rewraps(lesson_data) ==
    IF lesson_data = None THEN [status |-> 500, body |-> None]
    ELSE IF LessonDetailFields \ lesson_data.keys # {} THEN [status |-> 500, body |-> None]
    ELSE [status |-> 200, body |-> [lesson_data EXCEPT !.keys = LessonDetailFields,
                                                        !.quality = NoReadability]]

\* get_lesson_endpoint on what get_lesson_by_id returned: 404 for None;
\* LessonDetailResponse(**lesson_data) raises a ValidationError when a field
\* of the model is not among the keys, and the endpoint turns it into 500
get_lesson_endpoint(lesson_data) ==
    IF lesson_data = None THEN [status |-> 404, body |-> None]
    ELSE IF LessonDetailFields \ lesson_data.keys # {} THEN [status |-> 500, body |-> None]
    ELSE [status |-> 200, body |-> [lesson_data EXCEPT !.keys = LessonDetailFields,
                                                        !.quality = NoReadability]]

(***************************************************************************)
(* The magic link (web/routes.py): POST /login issues a login token, GET   *)
(* /login/callback redeems it for a session.  Time is counted in minutes.  *)
(***************************************************************************)
MaxTokens == 2
MaxTime == 16

\* the step of the clock
TickMinutes == 5

\* timedelta(minutes=15) and timedelta(hours=24)
MAGIC_LINK_TTL == 15
SESSION_TTL == 1440

\* redeemed_at = None
NoTime == 0

\* record = None
NoRecord == [id |-> 0, token |-> 0, user_id |-> <<>>, expires_at |-> NoTime, redeemed_at |-> NoTime]

\* the callback of a caller: where it is, the LoginToken object the query
\* loaded, the status and detail of the answer and the session id of the
\* cookie
NoCallback ==
    [at |-> "idle", record |-> NoRecord, status |-> 0, detail |-> "", cookie |-> 0]

(***************************************************************************)
(* validate_prompt_budget(prompt, context) as a function of its own: the   *)
(* prompt by its cleaned length, the context by whether it is a dictionary *)
(* and the length of its subject.                                          *)
(***************************************************************************)
\* context = None, the default of the parameter
NoContext == [given |-> FALSE, subjectLen |-> 0]
Context(subjectLen) == [given |-> TRUE, subjectLen |-> subjectLen]

\* the detail of the 413 evaluates context.get('subject', '') whatever the
\* context is, which raises AttributeError on None
validate_prompt_budget(cleanedLen, context) ==
    IF cleanedLen = 0 THEN NoRet
    ELSE IF estimate_tokens(cleanedLen) > MAX_PROMPT_TOKENS
         THEN IF context.given THEN HTTPException(413, "RequestTooLarge", {})
              ELSE Escaped("AttributeError")
    ELSE NoRet

\* variant: the candidates in descending order
max_tokens_candidates_descending == <<320, 200>>

max_tokens_candidates == <<200, 320>>

(***************************************************************************)
(* _call_openai: the except clause.                                        *)
(***************************************************************************)
\* str(exc).lower() of what the try block raised: the remote error, or the
\* HTTPException(500, "OpenAI a retourné une réponse vide") raised for an
\* empty text, whose message holds none of the keywords
ErrorFlags(o) == IF o.k = "error" THEN o.err ELSE {}

\* variant: the text is not tested for emptiness
RaisedInTry_errors_only(o) == o.k = "error"

RaisedInTry(o) == o.k \in {"error", "none", "empty", "blank"}

\* variant: every error is retried
IsTransient_any(flags) == TRUE

IsTransient(flags) == KwTimeout \in flags \/ KwRate \in flags

\* variant: the quota and authentication tests carry each other's status
TranslateError_swapped(o) ==
    LET flags == ErrorFlags(o)
    IN  IF KwTimeout \in flags THEN HTTPException(504, "Timeout", {})
        ELSE IF KwRate \in flags THEN HTTPException(429, "RateLimited", {})
        ELSE IF KwQuota \in flags THEN HTTPException(401, "QuotaExceeded", {})
        ELSE IF KwAuth \in flags THEN HTTPException(402, "AuthInvalid", {})
        ELSE IF o.k = "error" THEN HTTPException(500, "Unknown", {})
        ELSE HTTPException(500, "EmptyResponse", {})

\* the chain of tests that translates the last error
TranslateError(o) ==
    LET flags == ErrorFlags(o)
    IN  IF KwTimeout \in flags THEN HTTPException(504, "Timeout", {})
        ELSE IF KwRate \in flags THEN HTTPException(429, "RateLimited", {})
        ELSE IF KwQuota \in flags THEN HTTPException(402, "QuotaExceeded", {})
        ELSE IF KwAuth \in flags THEN HTTPException(401, "AuthInvalid", {})
        ELSE IF o.k = "error" THEN HTTPException(500, "Unknown", {})
        ELSE HTTPException(500, "EmptyResponse", {})

\* json.loads(content) raises JSONDecodeError: text that is not JSON, the
\* empty text included (json.loads(None) raises TypeError instead)
JSONDecodeError(o) == o.k \in {"malformed", "empty", "blank"}

(***************************************************************************)
(* generate_lesson: the checks on the parsed value, in the code's order.   *)
(* The result is the exception raised, or NoRet when LessonContent is      *)
(* returned.                                                               *)
(***************************************************************************)
\* [field for field in required_fields if field not in data]
MissingFields(v) == {k \in FieldSet : k \notin v.has}

IsList(x) == x.t \in {"list", "badlist"}

\* variant: the two minimum counts are not checked
ValidateData_no_minimum(v) ==
    IF v.t \in {"num", "null", "bool"} THEN Escaped("TypeError")
    ELSE IF MissingFields(v) # {}
         THEN HTTPException(500, "MissingFields", MissingFields(v))
    ELSE IF v.t \in {"str", "arr"} THEN Escaped("AttributeError")
    ELSE IF ~IsList(v.f.objectives) THEN HTTPException(500, "WrongType", {"objectives"})
    ELSE IF ~IsList(v.f.plan) THEN HTTPException(500, "WrongType", {"plan"})
    ELSE IF \/ v.f.title.t # "str" \/ v.f.content.t # "str"
            \/ v.f.objectives.t # "list" \/ v.f.plan.t # "list"
         THEN HTTPException(500, "ConstructionError", {})
    ELSE NoRet

ValidateData(v) ==
    IF v.t \in {"num", "null", "bool"} THEN Escaped("TypeError")
    ELSE IF MissingFields(v) # {} THEN HTTPException(500, "MissingFields", MissingFields(v))
    ELSE IF v.t \in {"str", "arr"} THEN Escaped("AttributeError")
    ELSE IF ~IsList(v.f.objectives) THEN HTTPException(500, "WrongType", {"objectives"})
    ELSE IF ~IsList(v.f.plan) THEN HTTPException(500, "WrongType", {"plan"})
    ELSE IF v.f.objectives.n < 1 THEN HTTPException(500, "InsufficientContent", {"objectives"})
    ELSE IF v.f.plan.n < 2 THEN HTTPException(500, "InsufficientContent", {"plan"})
    ELSE IF \/ v.f.title.t # "str" \/ v.f.content.t # "str"
            \/ v.f.objectives.t # "list" \/ v.f.plan.t # "list"
         THEN HTTPException(500, "ConstructionError", {})
    ELSE NoRet

(***************************************************************************)
(* State.                                                                  *)
(***************************************************************************)
VARIABLES
    requests,   \* table "requests", in insertion order
    lessons,    \* table "lessons", in insertion order
    nextId,     \* source of fresh uuid4 values
    started,    \* number of create_lesson calls begun
    pc,         \* per caller: where its create_lesson / generate_lesson is
    rawreq,     \* per caller: the input given to LessonRequest(...)
    req,        \* per caller: the LessonRequest
    hash,       \* per caller: request_hash
    promptLen,  \* per caller: cleaned length of the prompt
    ci,         \* per caller: index into max_tokens_candidates
    attempt,    \* per caller: attempt of _call_openai
    log,        \* per caller: the remote calls of the current generate_lesson
    sleeps,     \* per caller: time.sleep(2) calls of the current generate_lesson
    content,    \* per caller: the text _call_openai returned
    gen,        \* per caller: the LessonContent generate_lesson returned
    total_tokens, \* per caller: total_tokens of generate_lesson
    ret,        \* per caller: what the last call returned or raised
    got,        \* per caller: what the last get_lesson_by_id returned
    resp,       \* per caller: the response of the last GET /v1/lessons/{id}
    call,       \* the function called on its own last, with its arguments
    result,     \* what that call returned or raised
    users,      \* table users: the e-mail addresses
    login_tokens, \* table login_tokens, in insertion order
    sessions,   \* table sessions, in insertion order
    now,        \* the clock, in minutes
    callback    \* per caller: the GET /login/callback in progress or answered

vars == <<requests, lessons, nextId, started, pc, rawreq, req, hash, promptLen,
          ci, attempt, log, sleeps, content, gen, total_tokens, ret, got, resp, call, result,
          users, login_tokens, sessions, now, callback>>

webVars == <<users, login_tokens, sessions, now, callback>>

getVars == <<got, resp>>
utilVars == <<call, result>>

NoCall == [fn |-> "", done |-> TRUE]

dbVars == <<requests, lessons, nextId>>
genVars == <<promptLen, ci, attempt, log, sleeps, content, gen, total_tokens>>

InitPipeline ==
    /\ requests = <<>>
    /\ lessons = <<>>
    /\ nextId = 1
    /\ started = 0
    /\ pc = [p \in Procs |-> "ready"]
    /\ rawreq = [p \in Procs |-> NoRequest]
    /\ req = [p \in Procs |-> NoRequest]
    /\ hash = [p \in Procs |-> NoRequest]
    /\ promptLen = [p \in Procs |-> 0]
    /\ ci = [p \in Procs |-> 1]
    /\ attempt = [p \in Procs |-> 0]
    /\ log = [p \in Procs |-> <<>>]
    /\ sleeps = [p \in Procs |-> 0]
    /\ content = [p \in Procs |-> NoText]
    /\ gen = [p \in Procs |-> NoContent]
    /\ total_tokens = [p \in Procs |-> 0]
    /\ ret = [p \in Procs |-> NoRet]
    /\ got = [p \in Procs |-> None]
    /\ resp = [p \in Procs |-> NoResponse]
    /\ users = {}
    /\ login_tokens = <<>>
    /\ sessions = <<>>
    /\ now = 1
    /\ callback = [p \in Procs |-> NoCallback]

Init ==
    /\ InitPipeline
    /\ call = NoCall
    /\ result = NoRet

\* The frame of create_lesson: its locals request and request_hash are gone
\* once the call has returned or raised.
Frame(p) ==
    /\ req' = IF pc'[p] = "done" THEN [req EXCEPT ![p] = NoRequest] ELSE req
    /\ hash' = IF pc'[p] = "done" THEN [hash EXCEPT ![p] = NoRequest] ELSE hash

(***************************************************************************)
(* generate_lesson.                                                        *)
(***************************************************************************)
\* entry of generate_lesson with a request whose subject has subjectLen
\* characters: the prompt is built
GenerateStart(p, subjectLen, audience, duration) ==
    /\ pc[p] \in {"ready", "done", "generated"}
    /\ pc' = [pc EXCEPT ![p] = "budget"]
    /\ promptLen' = [promptLen EXCEPT ![p] = BuildPromptLen(subjectLen, audience, duration)]
    /\ ci' = [ci EXCEPT ![p] = 1]
    /\ attempt' = [attempt EXCEPT ![p] = 0]
    /\ log' = [log EXCEPT ![p] = <<>>]
    /\ sleeps' = [sleeps EXCEPT ![p] = 0]
    /\ content' = [content EXCEPT ![p] = NoText]
    /\ gen' = [gen EXCEPT ![p] = NoContent]
    /\ total_tokens' = [total_tokens EXCEPT ![p] = 0]
    /\ ret' = [ret EXCEPT ![p] = NoRet]
    /\ UNCHANGED <<dbVars, started, rawreq, req, hash, getVars, utilVars, webVars>>

\* validate_prompt_budget(prompt, {...}), before the loop over the ceilings
ValidateBudget(p) ==
    /\ pc[p] = "budget"
    /\ IF validate_prompt_budget_raises(promptLen[p])
       THEN /\ pc' = [pc EXCEPT ![p] = "done"]
            /\ ret' = [ret EXCEPT ![p] = HTTPException(413, "RequestTooLarge", {})]
       ELSE /\ pc' = [pc EXCEPT ![p] = "call"]
            /\ ret' = ret
    /\ Frame(p)
    /\ UNCHANGED <<dbVars, started, rawreq, genVars, getVars, utilVars, webVars>>

\* variant: the tokens of the calls of a generate are added up
CallOpenAI_accumulates(p, o) ==
    /\ pc[p] = "call"
    /\ log' = [log EXCEPT ![p] =
                 Append(@, [max_tokens |-> max_tokens_candidates[ci[p]], k |-> o.k, err |-> o.err,
                            usage |-> o.usage])]
    /\ IF RaisedInTry(o)
       THEN IF attempt[p] = 0 /\ IsTransient(ErrorFlags(o))
            THEN /\ sleeps' = [sleeps EXCEPT ![p] = @ + 1]
                 /\ attempt' = [attempt EXCEPT ![p] = 1]
                 /\ UNCHANGED <<pc, ret, content, total_tokens>>
            ELSE /\ pc' = [pc EXCEPT ![p] = "done"]
                 /\ ret' = [ret EXCEPT ![p] = TranslateError(o)]
                 /\ total_tokens' = [total_tokens EXCEPT ![p] = 0]
                 /\ UNCHANGED <<sleeps, attempt, content>>
       ELSE /\ pc' = [pc EXCEPT ![p] = "parse"]
            /\ content' = [content EXCEPT ![p] = o]
            /\ total_tokens' = [total_tokens EXCEPT ![p] = @ + o.usage]
            /\ UNCHANGED <<sleeps, attempt, ret>>
    /\ Frame(p)
    /\ UNCHANGED <<dbVars, started, rawreq, promptLen, ci, gen, getVars, utilVars, webVars>>

\* one pass of the loop of _call_openai: the remote call with the current
\* ceiling and what the try / except does with its outcome o
CallOpenAI(p, o) ==
    /\ pc[p] = "call"
    /\ log' = [log EXCEPT ![p] =
                 Append(@, [max_tokens |-> max_tokens_candidates[ci[p]], k |-> o.k, err |-> o.err,
                            usage |-> o.usage])]
    /\ IF RaisedInTry(o)
       THEN IF attempt[p] = 0 /\ IsTransient(ErrorFlags(o))
            THEN /\ sleeps' = [sleeps EXCEPT ![p] = @ + 1]
                 /\ attempt' = [attempt EXCEPT ![p] = 1]
                 /\ UNCHANGED <<pc, ret, content, total_tokens>>
            ELSE /\ pc' = [pc EXCEPT ![p] = "done"]
                 /\ ret' = [ret EXCEPT ![p] = TranslateError(o)]
                 /\ total_tokens' = [total_tokens EXCEPT ![p] = 0]
                 /\ UNCHANGED <<sleeps, attempt, content>>
       ELSE /\ pc' = [pc EXCEPT ![p] = "parse"]
            /\ content' = [content EXCEPT ![p] = o]
            /\ total_tokens' = [total_tokens EXCEPT ![p] = o.usage]
            /\ UNCHANGED <<sleeps, attempt, ret>>
    /\ Frame(p)
    /\ UNCHANGED <<dbVars, started, rawreq, promptLen, ci, gen, getVars, utilVars, webVars>>

\* variant: the retry of a transient error is allowed once per generate
ParseValidate_shared_retry(p) ==
    /\ pc[p] = "parse"
    /\ content' = [content EXCEPT ![p] = NoText]
    /\ IF JSONDecodeError(content[p])
       THEN IF ci[p] < Len(max_tokens_candidates)
            THEN /\ ci' = [ci EXCEPT ![p] = @ + 1]
                 /\ pc' = [pc EXCEPT ![p] = "call"]
                 /\ UNCHANGED <<ret, gen, attempt>>
            ELSE /\ pc' = [pc EXCEPT ![p] = "done"]
                 /\ ret' = [ret EXCEPT ![p] = HTTPException(500, "InvalidJSON", {})]
                 /\ UNCHANGED <<ci, attempt, gen>>
       ELSE LET outcome == IF content[p].k = "json" THEN ValidateData(content[p].v)
                            ELSE Escaped("TypeError")
            IN  IF outcome.kind = "none"
                THEN /\ pc' = [pc EXCEPT ![p] = "generated"]
                     /\ gen' = [gen EXCEPT ![p] = LessonContent(content[p].v)]
                     /\ UNCHANGED <<ret, ci, attempt>>
                ELSE /\ pc' = [pc EXCEPT ![p] = "done"]
                     /\ ret' = [ret EXCEPT ![p] = outcome]
                     /\ UNCHANGED <<gen, ci, attempt>>
    /\ Frame(p)
    /\ total_tokens' = IF pc'[p] = "done" THEN [total_tokens EXCEPT ![p] = 0] ELSE total_tokens
    /\ UNCHANGED <<dbVars, started, rawreq, promptLen, log, sleeps, getVars, utilVars, webVars>>

\* the body of the loop over max_tokens_candidates after _call_openai has
\* returned: json.loads, the checks, LessonContent(**data)
ParseValidate(p) ==
    /\ pc[p] = "parse"
    /\ content' = [content EXCEPT ![p] = NoText]
    /\ IF JSONDecodeError(content[p])
       THEN IF ci[p] < Len(max_tokens_candidates)
            THEN /\ ci' = [ci EXCEPT ![p] = @ + 1]
                 /\ attempt' = [attempt EXCEPT ![p] = 0]
                 /\ pc' = [pc EXCEPT ![p] = "call"]
                 /\ UNCHANGED <<ret, gen>>
            ELSE /\ pc' = [pc EXCEPT ![p] = "done"]
                 /\ ret' = [ret EXCEPT ![p] = HTTPException(500, "InvalidJSON", {})]
                 /\ UNCHANGED <<ci, attempt, gen>>
       ELSE LET outcome == IF content[p].k = "json" THEN ValidateData(content[p].v)
                            ELSE Escaped("TypeError")
            IN  IF outcome.kind = "none"
                THEN /\ pc' = [pc EXCEPT ![p] = "generated"]
                     /\ gen' = [gen EXCEPT ![p] = LessonContent(content[p].v)]
                     /\ UNCHANGED <<ret, ci, attempt>>
                ELSE /\ pc' = [pc EXCEPT ![p] = "done"]
                     /\ ret' = [ret EXCEPT ![p] = outcome]
                     /\ UNCHANGED <<gen, ci, attempt>>
    /\ Frame(p)
    /\ total_tokens' = IF pc'[p] = "done" THEN [total_tokens EXCEPT ![p] = 0] ELSE total_tokens
    /\ UNCHANGED <<dbVars, started, rawreq, promptLen, log, sleeps, getVars, utilVars, webVars>>

(***************************************************************************)
(* Storage queries (SQLAlchemy over SQLite; rows come back in insertion    *)
(* order).                                                                 *)
(***************************************************************************)
\* indices of the Request rows with input_hash = h
RequestsWithHash(h) == {i \in DOMAIN requests : requests[i].input_hash = h}

\* indices of the Lesson rows of the Request with id rid (Request.lessons)
LessonsOf(rid) == {i \in DOMAIN lessons : lessons[i].request_id = rid}

Min(S) == CHOOSE x \in S : \A y \in S : x <= y

\* variant: the lookup never finds the stored artifact
CacheHit_never(h) == FALSE

\* db.query(Request).filter(Request.input_hash == h).first() finds a row
\* that has lessons
CacheHit(h) ==
    /\ RequestsWithHash(h) # {}
    /\ LessonsOf(requests[Min(RequestsWithHash(h))].id) # {}

\* variant: the first lesson of the table, whatever its request
CachedLesson_any_request(h) == lessons[1]

\* existing.lessons[0]
CachedLesson(h) == lessons[Min(LessonsOf(requests[Min(RequestsWithHash(h))].id))]

(***************************************************************************)
(* create_lesson.                                                          *)
(***************************************************************************)
\* the endpoint builds the LessonRequest and create_lesson computes its hash
CreateStart(p, raw) ==
    /\ pc[p] \in {"ready", "done"}
    /\ started < MaxCreates
    /\ LessonRequestValid(raw)
    /\ started' = started + 1
    /\ rawreq' = [rawreq EXCEPT ![p] = raw]
    /\ req' = [req EXCEPT ![p] = LessonRequest(raw)]
    /\ hash' = [hash EXCEPT ![p] = _compute_request_hash(LessonRequest(raw))]
    /\ pc' = [pc EXCEPT ![p] = "lookup"]
    /\ promptLen' = [promptLen EXCEPT ![p] = 0]
    /\ ci' = [ci EXCEPT ![p] = 1]
    /\ attempt' = [attempt EXCEPT ![p] = 0]
    /\ log' = [log EXCEPT ![p] = <<>>]
    /\ sleeps' = [sleeps EXCEPT ![p] = 0]
    /\ content' = [content EXCEPT ![p] = NoText]
    /\ gen' = [gen EXCEPT ![p] = NoContent]
    /\ total_tokens' = [total_tokens EXCEPT ![p] = 0]
    /\ ret' = [ret EXCEPT ![p] = NoRet]
    /\ got' = [got EXCEPT ![p] = None]
    /\ resp' = [resp EXCEPT ![p] = NoResponse]
    /\ UNCHANGED <<dbVars, utilVars, webVars>>

\* first transaction: the idempotency lookup; on a miss generate_lesson is
\* entered and builds its prompt
Lookup(p) ==
    /\ pc[p] = "lookup"
    /\ IF CacheHit(hash[p])
       THEN /\ ret' = [ret EXCEPT ![p] =
                         [CreateResult(CachedLesson(hash[p]).id, CachedLesson(hash[p]).title,
                                       TRUE, 0)
                             EXCEPT !.quality = ReadabilitySummaryOf(CachedLesson(hash[p]).content_md,
                                                                     req[p].audience)]]
            /\ pc' = [pc EXCEPT ![p] = "done"]
            /\ UNCHANGED promptLen
       ELSE /\ pc' = [pc EXCEPT ![p] = "budget"]
            /\ promptLen' = [promptLen EXCEPT ![p] =
                               BuildPromptLen(Len(req[p].subject), req[p].audience, req[p].duration)]
            /\ UNCHANGED ret
    /\ Frame(p)
    /\ UNCHANGED <<dbVars, started, rawreq, ci, attempt, log, sleeps, content, gen, total_tokens,
                   getVars, utilVars, webVars>>

\* variant: the INSERT replaces what the table held
db_add_replaces(table, row) == <<row>>

\* db.add(row) and the INSERT that flush or commit issues for it
db_add(table, row) == Append(table, row)

\* where the second transaction can raise: nowhere, in db.flush() (the INSERT
\* of the Request), or in db.commit() (the INSERT of the Lesson, the COMMIT)
PersistFailures == {"none", "flush", "commit"}

\* variant: a block that raised keeps what it had written
get_session_exit_no_rollback(before, written, raised) == written

\* get_session: what a table holds when the with block is left; a block
\* that raised is rolled back
get_session_exit(before, written, raised) == IF raised THEN before ELSE written

\* the rest of create_lesson after generate_lesson has returned:
\* format_lesson, then the second transaction: add the Request, flush, add
\* the Lesson, commit.  utcnow() is read off the count of creates begun, a
\* clock that never runs backwards.
Persist(p, failAt) ==
    /\ pc[p] = "generated"
    /\ LET db_request ==
               [id |-> nextId, input_hash |-> hash[p], subject |-> req[p].subject,
                audience |-> req[p].audience, duration |-> req[p].duration]
           formatted == format_lesson(gen[p], req[p].audience)
           readability_summary == ReadabilitySummaryOf(formatted.markdown, req[p].audience)
           db_lesson ==
               [id |-> nextId + 1, request_id |-> nextId, title |-> gen[p].title,
                content_md |-> formatted.markdown,
                objectives |-> gen[p].objectives, plan |-> gen[p].plan,
                created_at |-> started]
           flushed == IF failAt = "flush" THEN requests ELSE db_add(requests, db_request)
           added == IF failAt = "none" THEN db_add(lessons, db_lesson) ELSE lessons
       IN  /\ requests' = get_session_exit(requests, flushed, failAt # "none")
           /\ lessons' = get_session_exit(lessons, added, failAt # "none")
           /\ ret' = [ret EXCEPT ![p] =
                        IF failAt = "none"
                        THEN [CreateResult(db_lesson.id, db_lesson.title, FALSE, total_tokens[p])
                                 EXCEPT !.quality = readability_summary]
                        ELSE Escaped("SQLAlchemyError")]
    /\ nextId' = nextId + (IF failAt = "flush" THEN 1 ELSE 2)
    /\ pc' = [pc EXCEPT ![p] = "done"]
    /\ gen' = [gen EXCEPT ![p] = NoContent]
    /\ total_tokens' = [total_tokens EXCEPT ![p] = 0]
    /\ Frame(p)
    /\ UNCHANGED <<started, rawreq, promptLen, ci, attempt, log, sleeps, content, getVars, utilVars, webVars>>

\* GET /v1/lessons/{lesson_id}: get_lesson_by_id in its own transaction,
\* then the response of get_lesson_endpoint
GetLesson(p, lesson_id) ==
    /\ pc[p] \in {"ready", "done"}
    /\ LET found == {i \in DOMAIN lessons : lessons[i].id = lesson_id}
           lesson == lessons[Min(found)]
           request == requests[Min({i \in DOMAIN requests : requests[i].id = lesson.request_id})]
           lesson_data == IF found # {} THEN LessonDict(lesson, request) ELSE None
       IN  /\ got' = [got EXCEPT ![p] = lesson_data]
           /\ resp' = [resp EXCEPT ![p] = get_lesson_endpoint(lesson_data)]
    /\ UNCHANGED <<dbVars, started, pc, rawreq, req, hash, genVars, ret, utilVars, webVars>>

(***************************************************************************)
(* Functions called on their own.                                          *)
(***************************************************************************)
callVars == <<dbVars, started, pc, rawreq, req, hash, genVars, ret, getVars, webVars>>

\* the call that is pending returns or raises
Returns(fn, value) ==
    /\ call.fn = fn /\ ~call.done
    /\ call' = [call EXCEPT !.done = TRUE]
    /\ result' = value
    /\ UNCHANGED callVars

\* LessonRequest(subject=..., audience=..., duration=...): the request, or
\* pydantic's ValidationError
NewLessonRequest ==
    Returns("LessonRequest",
            IF LessonRequestValid(call.raw)
            THEN [kind |-> "ok", value |-> LessonRequest(call.raw)]
            ELSE [kind |-> "ValidationError", value |-> NoRequest])

\* validate_prompt_budget(prompt, context) or validate_prompt_budget(prompt)
ValidatePromptBudget ==
    Returns("validate_prompt_budget", validate_prompt_budget(call.cleanedLen, call.context))

\* estimate_tokens(text)
EstimateTokens ==
    Returns("estimate_tokens", estimate_tokens_of_text(call.text))

\* validate_readability_for_audience(text, audience)
ValidateReadability ==
    Returns("validate_readability_for_audience",
            validate_readability_for_audience(call.text, call.audience))

\* calculate_flesch_kincaid_french(a) and calculate_flesch_kincaid_french(b),
\* with the statistics the two scores are computed from
CalculateFleschKincaid ==
    Returns("calculate_flesch_kincaid_french",
            [kind |-> "ok",
             a |-> [stats |-> parse_text_stats(call.a),
                    score |-> calculate_flesch_kincaid_french(call.a)],
             b |-> [stats |-> parse_text_stats(call.b),
                    score |-> calculate_flesch_kincaid_french(call.b)]])

\* format_lesson(content, audience)
FormatLesson ==
    Returns("format_lesson", format_lesson(call.content, call.audience))

(***************************************************************************)
(* POST /login and GET /login/callback.                                    *)
(***************************************************************************)
pipelineVars == <<dbVars, started, pc, rawreq, req, hash, genVars, ret, getVars, utilVars>>

\* indices of the LoginToken rows with this token
TokensWith(token) == {i \in DOMAIN login_tokens : login_tokens[i].token = token}

\* time passes
Tick ==
    /\ now + TickMinutes <= MaxTime
    /\ now' = now + TickMinutes
    /\ UNCHANGED <<pipelineVars, users, login_tokens, sessions, callback>>

\* request_magic_link: an address without "@" is refused; otherwise the
\* user is created when the address is new and a fresh token that expires
\* after MAGIC_LINK_TTL is stored
request_magic_link(raw_email) ==
    LET normalized_email == Lower(Strip(raw_email))
    IN  /\ \E i \in DOMAIN normalized_email : normalized_email[i] = "@"
        /\ Len(login_tokens) < MaxTokens
        /\ users' = users \cup {normalized_email}
        /\ login_tokens' =
              Append(login_tokens,
                     [id |-> Len(login_tokens) + 1, token |-> Len(login_tokens) + 1,
                      user_id |-> normalized_email, expires_at |-> now + MAGIC_LINK_TTL,
                      redeemed_at |-> NoTime])
        /\ UNCHANGED <<pipelineVars, sessions, now, callback>>

\* consume_magic_link, the query: the LoginToken with the token is loaded,
\* or the callback is refused when there is none
CallbackQuery(p, token) ==
    /\ callback[p].at = "idle"
    /\ callback' = [callback EXCEPT ![p] =
            IF TokensWith(token) = {}
            THEN [NoCallback EXCEPT !.status = 400, !.detail = "Lien invalide"]
            ELSE [NoCallback EXCEPT !.at = "loaded",
                                    !.record = login_tokens[Min(TokensWith(token))]]]
    /\ UNCHANGED <<pipelineVars, users, login_tokens, sessions, now>>

\* consume_magic_link after the query: the tests on the loaded object, then
\* redeemed_at is set, the session is added and the transaction commits, or
\* the flush raises and the transaction is rolled back
CallbackRedeem(p, failAt) ==
    /\ callback[p].at = "loaded"
    /\ LET record == callback[p].record
           answer(st, detail, cookie) ==
               [callback EXCEPT ![p] = [NoCallback EXCEPT !.status = st, !.detail = detail,
                                                          !.cookie = cookie]]
           session == [id |-> Len(sessions) + 1, user_id |-> record.user_id,
                       expires_at |-> now + SESSION_TTL, via |-> record.token]
           redeemed == [i \in DOMAIN login_tokens |->
                           IF login_tokens[i].id = record.id
                           THEN [login_tokens[i] EXCEPT !.redeemed_at = now]
                           ELSE login_tokens[i]]
       IN  IF record.redeemed_at # NoTime
           THEN callback' = answer(400, "Lien déjà utilisé", 0)
                /\ UNCHANGED <<login_tokens, sessions>>
           ELSE IF record.expires_at <= now
           THEN callback' = answer(400, "Lien expiré", 0)
                /\ UNCHANGED <<login_tokens, sessions>>
           ELSE /\ login_tokens' = get_session_exit(login_tokens, redeemed, failAt # "none")
                /\ sessions' = get_session_exit(sessions, db_add(sessions, session),
                                                failAt # "none")
                /\ callback' = IF failAt = "none" THEN answer(303, "", session.id)
                               ELSE answer(500, "SQLAlchemyError", 0)
    /\ UNCHANGED <<pipelineVars, users, now>>

(***************************************************************************)
(* Inputs.                                                                 *)
(***************************************************************************)
RawRequests(subjects, auds, durs) ==
    {[subject |-> s, audience |-> a, duration |-> d] :
        s \in subjects, a \in auds, d \in durs}

\* subject lengths given to generate_lesson: the limits of LessonRequest and
\* the lengths around the point where the prompt reaches the budget
GenSubjectLens == {SUBJECT_MIN_LENGTH, SUBJECT_MAX_LENGTH} \cup (5510..5514)

(***************************************************************************)
(* Specifications.                                                         *)
(***************************************************************************)
\* concurrent callers of create_lesson
Next ==
    \E p \in Procs :
        \/ \E raw \in RawRequests(FewSubjects, {"enfant"}, {"short"}) : CreateStart(p, raw)
        \/ Lookup(p)
        \/ ValidateBudget(p)
        \/ \E o \in FewOutcomes : CallOpenAI(p, o)
        \/ ParseValidate(p)
        \/ \E failAt \in PersistFailures : Persist(p, failAt)

Spec == Init /\ [][Next]_vars

\* one caller, one create_lesson after the other
NextSeq ==
    \/ \E raw \in RawRequests(SeqSubjects, {"adulte", "enfant"}, {"long"}) :
            CreateStart(1, raw)
    \/ Lookup(1)
    \/ ValidateBudget(1)
    \/ \E o \in SeqOutcomes : CallOpenAI(1, o)
    \/ ParseValidate(1)
    \/ \E failAt \in PersistFailures : Persist(1, failAt)

SpecSeq == Init /\ [][NextSeq]_vars

\* generate_lesson on its own, against every outcome of the remote call
NextGen ==
    \/ \E n \in GenSubjectLens, a \in Audiences, d \in Durations : GenerateStart(1, n, a, d)
    \/ ValidateBudget(1)
    \/ \E o \in Outcomes : CallOpenAI(1, o)
    \/ ParseValidate(1)

SpecGen == Init /\ [][NextGen]_vars

\* generate_lesson runs in one thread: once entered, each of its steps is
\* taken, and the client's timeout makes every remote call return or raise
SpecGenLive ==
    /\ SpecGen
    /\ WF_vars(ValidateBudget(1))
    /\ WF_vars(\E o \in Outcomes : CallOpenAI(1, o))
    /\ WF_vars(ParseValidate(1))

\* subjects of the caller that creates and reads back
ApiSubjects == {<<"a", "a">>, <<"A", "a", " ">>, <<"a", " ", "a">>}

\* outcomes for that caller: an error, lessons, and values below the minimum
ApiOutcomes ==
    {ErrorOutcome({KwQuota}), WithUsage(TextOutcome("malformed"), 90),
     WithUsage(JsonOutcome(GoodJson(1)), 150), JsonOutcome(GoodJson(2)),
     JsonOutcome(JsonObject([GoodFields EXCEPT !.objectives = JsList(0)])),
     JsonOutcome(JsonObject([GoodFields EXCEPT !.plan = JsList(1)])),
     JsonOutcome(JsonObject([GoodFields EXCEPT !.title = Absent])),
     JsonOutcome(JsonObject([GoodFields EXCEPT !.content = JsNum]))}

\* one caller that creates lessons and reads lessons back by id
NextApi ==
    \/ \E raw \in RawRequests(ApiSubjects, {"lycéen"}, {"medium"}) : CreateStart(1, raw)
    \/ Lookup(1)
    \/ ValidateBudget(1)
    \/ \E o \in ApiOutcomes : CallOpenAI(1, o)
    \/ ParseValidate(1)
    \/ \E failAt \in PersistFailures : Persist(1, failAt)
    \/ \E lesson_id \in 0..nextId : GetLesson(1, lesson_id)

SpecApi == Init /\ [][NextApi]_vars

\* subjects around the two limits of LessonRequest, with whitespace before,
\* inside and after
LimitSubjects ==
    {Rep(" ", lead) \o Rep("a", n) \o Rep(" ", gap) \o Rep("A", m) \o Rep(" ", trail) :
        lead \in 0..1, n \in {0, 1, 2, 197, 198, 199, 200, 201}, gap \in 0..2, m \in 0..1,
        trail \in 0..2}

\* cleaned prompt lengths: the empty prompt, short prompts, and the lengths
\* around the first one whose estimate exceeds MAX_PROMPT_TOKENS
BudgetPromptLens == (0..8) \cup (5996..6010)

\* texts with leading, inner and trailing whitespace of both kinds
TokenTexts ==
    {lead \o Rep("a", n) \o gap \o Rep("A", m) \o trail :
        lead \in {<<>>, <<" ">>, <<"\n", " ">>}, n \in 0..24,
        gap \in {<<>>, <<" ">>, <<" ", "\n", " ">>}, m \in 0..1,
        trail \in {<<>>, <<"\n">>}}

\* words of 1, 2 and 3 syllables, and a number
SampleWords == {<<"a", "b">>, <<"a", "b", "a">>, <<"a", "b", "a", "b", "a">>, <<"1">>}

\* every short text, and texts of two or three words with Markdown marks, a
\* sentence end between the words or a line break, and a sentence end or none
ScoreTexts ==
    StringsOver(TextChars, MaxTextLen)
    \cup {pre \o w1 \o sep \o w2 \o w3 \o end :
            pre \in {<<>>, <<"#", "#", " ">>, <<"*", "*">>}, w1 \in SampleWords,
            sep \in {<<" ">>, <<".", " ">>, <<"\n", "\n">>}, w2 \in SampleWords,
            w3 \in {<<>>, <<" ", "a", "b", "a">>},
            end \in {<<>>, <<"!">>}}

\* texts of two or three words in one or two sentences, to be compared
OrderTexts ==
    {w1 \o sep \o w2 \o w3 :
        w1 \in SampleWords, sep \in {<<" ">>, <<".", " ">>}, w2 \in SampleWords,
        w3 \in {<<>>, <<" ", "a", "b", "a">>}}

\* contents with one or two objectives and two or three plan entries, in
\* and out of the order of their numbers
FormatContents ==
    {[title |-> t, objectives |-> o, plan |-> pl, content |-> 1] :
        t \in {1, 2}, o \in {<<1>>, <<2, 1>>, <<1, 1>>}, pl \in {<<1, 2>>, <<2, 1, 3>>}}

\* the functions of the pipeline called on their own, each on one input
InitUtil ==
    /\ InitPipeline
    /\ result = NoRet
    /\ \/ \E raw \in RawRequests(LimitSubjects, {"enfant"}, {"short"}) :
              call = [fn |-> "LessonRequest", done |-> FALSE, raw |-> raw]
       \/ \E n \in BudgetPromptLens, c \in {NoContext, Context(0), Context(2)} :
              call = [fn |-> "validate_prompt_budget", done |-> FALSE, cleanedLen |-> n,
                      context |-> c]
       \/ \E text \in TokenTexts :
              call = [fn |-> "estimate_tokens", done |-> FALSE, text |-> text]
       \/ \E text \in ScoreTexts, audience \in Audiences \cup {"expert"} :
              call = [fn |-> "validate_readability_for_audience", done |-> FALSE,
                      text |-> text, audience |-> audience]
       \/ \E c \in FormatContents, audience \in Audiences \cup {"expert"} :
              call = [fn |-> "format_lesson", done |-> FALSE, content |-> c,
                      audience |-> audience]
       \/ \E a \in OrderTexts, b \in OrderTexts :
              call = [fn |-> "calculate_flesch_kincaid_french", done |-> FALSE,
                      a |-> a, b |-> b]

NextUtil ==
    \/ NewLessonRequest
    \/ ValidatePromptBudget
    \/ EstimateTokens
    \/ ValidateReadability
    \/ CalculateFleschKincaid
    \/ FormatLesson

SpecUtil == InitUtil /\ [][NextUtil]_vars

\* addresses typed into the login form: two spellings of one address and
\* one without "@"
WebEmails == {<<"a", "@">>, <<"A", "@", " ">>, <<"a">>}

\* two browsers following magic links while time passes
NextWeb ==
    \/ \E raw_email \in WebEmails : request_magic_link(raw_email)
    \/ Tick
    \/ \E p \in Procs, token \in 1..(MaxTokens + 1) : CallbackQuery(p, token)
    \/ \E p \in Procs, failAt \in {"none", "flush"} : CallbackRedeem(p, failAt)

SpecWeb == Init /\ [][NextWeb]_vars

TypeOK == pc \in [Procs -> {"ready", "lookup", "budget", "call", "parse", "generated", "done"}]

(***************************************************************************)
(* Properties of create_lesson.                                            *)
(***************************************************************************)
\* indices of the Lesson rows that belong to a Request with input_hash = h
LessonsWithHash(h) ==
    {i \in DOMAIN lessons : \E r \in RequestsWithHash(h) : lessons[i].request_id = requests[r].id}

StoredHashes == {requests[i].input_hash : i \in DOMAIN requests}

\* create_lesson of caller p returns its dictionary in this step
CreateReturns(p) == pc[p] # "done" /\ pc'[p] = "done" /\ ret'[p].kind = "ok"

\* rows already stored stay as they are
RowsKept ==
    /\ Len(requests') >= Len(requests) /\ SubSeq(requests', 1, Len(requests)) = requests
    /\ Len(lessons') >= Len(lessons) /\ SubSeq(lessons', 1, Len(lessons)) = lessons

OneArtifactPerHash ==
    \A h \in StoredHashes :
        Cardinality(RequestsWithHash(h)) = 1 /\ Cardinality(LessonsWithHash(h)) = 1

C1_Return(p) ==
    LET h == hash[p]
    IN  IF LessonsWithHash(h) # {}
        THEN /\ ret'[p].from_cache
             /\ \A i \in LessonsWithHash(h) : ret'[p].lesson_id = lessons[i].id
             /\ requests' = requests /\ lessons' = lessons
        ELSE /\ ~ret'[p].from_cache
             /\ ret'[p].lesson_id \notin
                    {requests[i].id : i \in DOMAIN requests} \cup {lessons[i].id : i \in DOMAIN lessons}
             /\ Len(requests') = Len(requests) + 1
             /\ Len(lessons') = Len(lessons) + 1
             /\ requests'[Len(requests')].input_hash = h
             /\ lessons'[Len(lessons')].id = ret'[p].lesson_id
             /\ lessons'[Len(lessons')].request_id = requests'[Len(requests')].id

\* C1: in a sequential run from an empty store, a create whose hash has no
\* stored artifact returns from_cache = false with an id not used before and
\* stores one Request and one Lesson for the hash; a create whose hash has a
\* stored artifact returns from_cache = true with the id of that artifact and
\* stores nothing; stored rows never change, and every stored hash has
\* exactly one Request row and one Lesson row.
C1_Idempotence ==
    /\ []OneArtifactPerHash
    /\ [][RowsKept /\ \A p \in Procs : CreateReturns(p) => C1_Return(p)]_vars

\* a third create of a request has hit the artifact the first one stored
C1_Witness ==
    /\ started = 3 /\ pc[1] = "done" /\ ret[1].kind = "ok" /\ ret[1].from_cache
    /\ Len(lessons) = 1 /\ ret[1].lesson_id = lessons[1].id

\* C2 as claimed: in every reachable state of the concurrent callers, a
\* request hash has at most one Request row and at most one Lesson row.
C2_AtMostOnePerHash ==
    \A h \in StoredHashes :
        Cardinality(RequestsWithHash(h)) <= 1 /\ Cardinality(LessonsWithHash(h)) <= 1

(***************************************************************************)
(* Equality of two subjects up to letter case and to leading, trailing or  *)
(* repeated whitespace, defined on the characters.                         *)
(***************************************************************************)
SameLetter(c, d) == c = d \/ {c, d} = {"a", "A"}

RECURSIVE DropSpaces(_)
DropSpaces(s) == IF s # <<>> /\ Head(s) = " " THEN DropSpaces(Tail(s)) ELSE s

RECURSIVE SameFrom(_, _)
SameFrom(s, t) ==
    IF s # <<>> /\ t # <<>> /\ Head(s) # " " /\ Head(t) # " "
    THEN SameLetter(Head(s), Head(t)) /\ SameFrom(Tail(s), Tail(t))
    ELSE LET s1 == DropSpaces(s)
             t1 == DropSpaces(t)
         IN  IF s1 = <<>> \/ t1 = <<>> THEN s1 = <<>> /\ t1 = <<>>
             ELSE s1 # s /\ t1 # t /\ SameFrom(s1, t1)

SameSubject(s, t) == SameFrom(DropSpaces(s), DropSpaces(t))

\* the stored artifacts whose request equals raw up to case and whitespace
EquivalentStored(raw) ==
    {i \in DOMAIN requests :
        /\ SameSubject(requests[i].subject, raw.subject)
        /\ requests[i].audience = raw.audience
        /\ requests[i].duration = raw.duration
        /\ LessonsOf(requests[i].id) # {}}

\* C3: two well-formed requests equal up to letter case and leading,
\* trailing or repeated whitespace have the same hash; when a create looks up a request that equals, up to letter case and
\* leading, trailing or repeated whitespace, the request of a stored
\* artifact, its hash is that artifact's hash, and the lookup returns that
\* artifact's lesson id with from_cache = true and adds no row.
C3_SameHashUpToCaseAndSpace ==
    /\ \A r1, r2 \in RawRequests(StringsUpTo(MaxSubjectLen), {"adulte", "enfant"}, {"long", "short"}) :
          (/\ LessonRequestValid(r1) /\ LessonRequestValid(r2)
           /\ SameSubject(r1.subject, r2.subject)
           /\ r1.audience = r2.audience /\ r1.duration = r2.duration)
          => _compute_request_hash(LessonRequest(r1)) = _compute_request_hash(LessonRequest(r2))
    /\ [][\A p \in Procs :
          (pc[p] = "lookup" /\ pc'[p] # "lookup") =>
              \A i \in EquivalentStored(rawreq[p]) :
                  /\ hash[p] = requests[i].input_hash
                  /\ pc'[p] = "done"
                  /\ ret'[p].kind = "ok" /\ ret'[p].from_cache
                  /\ \E j \in LessonsOf(requests[i].id) : ret'[p].lesson_id = lessons[j].id
                  /\ requests' = requests /\ lessons' = lessons]_vars

\* a request that differs from the stored one in letter case and in
\* whitespace was served from it
C3_Witness ==
    /\ pc[1] = "done" /\ ret[1].kind = "ok" /\ ret[1].from_cache
    /\ \E i \in EquivalentStored(rawreq[1]) :
          /\ requests[i].subject # normalize_subject(rawreq[1].subject)
          /\ rawreq[1].subject # normalize_subject(rawreq[1].subject)
          /\ \E j \in LessonsOf(requests[i].id) : ret[1].lesson_id = lessons[j].id

(***************************************************************************)
(* Properties of generate_lesson.                                          *)
(***************************************************************************)
Finished(p) == pc[p] \in {"done", "generated"}

\* generate_lesson of caller p has raised HTTPException(status, detail)
Raised(p, status, detail) ==
    pc[p] = "done" /\ ret[p].kind = "http" /\ ret[p].status = status /\ ret[p].detail = detail

\* C4: once the budget check of a generate has run on a prompt whose
\* estimate exceeds 1800 tokens, the generate has failed with status 413 and
\* has made no remote call.
C4_BudgetBeforeCall ==
    \A p \in Procs :
        (pc[p] \notin {"ready", "budget"} /\ estimate_tokens(promptLen[p]) > 1800)
            => Raised(p, 413, "RequestTooLarge") /\ log[p] = <<>>

\* a prompt estimated one token above the ceiling was rejected without a call
C4_Witness ==
    /\ estimate_tokens(promptLen[1]) = 1801
    /\ Raised(1, 413, "RequestTooLarge") /\ log[1] = <<>>

\* the remote call failed with a timeout or a rate limit
TransientError(e) == e.k = "error" /\ ("timeout" \in e.err \/ "rate limit" \in e.err)

CallsAt(p, c) == {i \in DOMAIN log[p] : log[p][i].max_tokens = c}

\* call i of caller p is followed by another call with the same ceiling
CalledAgain(p, i) ==
    i < Len(log[p]) /\ log[p][i + 1].max_tokens = log[p][i].max_tokens

\* C5: a ceiling is called at most twice; the first call with a ceiling is
\* followed by a second one exactly when it failed with a timeout or a rate
\* limit (the second call may still be pending); a rate limit followed by a
\* parsed lesson is a success after 2 calls, and two timeouts or two rate
\* limits are the corresponding failure after 2 calls.
C5_OneRetryOnTransient ==
    \A p \in Procs :
        /\ \A c \in {200, 320} : Cardinality(CallsAt(p, c)) <= 2
        /\ \A i \in DOMAIN log[p] :
              i = Min(CallsAt(p, log[p][i].max_tokens)) =>
                  /\ CalledAgain(p, i) => TransientError(log[p][i])
                  /\ TransientError(log[p][i]) =>
                        CalledAgain(p, i) \/ (i = Len(log[p]) /\ pc[p] = "call")
        /\ (Len(log[p]) >= 2 /\ log[p][1].err = {"rate limit"} /\ log[p][2].k = "json"
                /\ pc[p] = "generated")
              => Len(log[p]) = 2
        /\ (Len(log[p]) >= 2 /\ log[p][1].err = {"timeout"} /\ log[p][2].err = {"timeout"})
              => Len(log[p]) = 2 /\ Raised(p, 504, "Timeout")
        /\ (Len(log[p]) >= 2 /\ log[p][1].err = {"rate limit"} /\ log[p][2].err = {"rate limit"})
              => Len(log[p]) = 2 /\ Raised(p, 429, "RateLimited")

\* one rate limit, one pause, then a lesson at the second call
C5_Witness ==
    /\ pc[1] = "generated" /\ Len(log[1]) = 2 /\ sleeps[1] = 1
    /\ log[1][1].err = {"rate limit"} /\ log[1][2].k = "json"
    /\ log[1][1].max_tokens = 200 /\ log[1][2].max_tokens = 200

LastCall(p) == log[p][Len(log[p])]

\* C6: when the last remote call of a finished generate is an error, the
\* generate has raised the status of that error: timeout 504, rate limit
\* 429, quota 402, authentication 401, any other error 500.
C6_TypedRemoteFailure ==
    \A p \in Procs :
        (pc[p] = "done" /\ log[p] # <<>> /\ LastCall(p).k = "error") =>
            /\ ret[p].kind = "http"
            /\ "timeout" \in LastCall(p).err => ret[p].status = 504
            /\ LastCall(p).err = {"rate limit"} => ret[p].status = 429
            /\ LastCall(p).err = {"quota"} => ret[p].status = 402
            /\ LastCall(p).err = {"authentication"} => ret[p].status = 401
            /\ LastCall(p).err = {} => ret[p].status = 500

\* a quota error on the second attempt, after a rate limit on the first
C6_Witness ==
    /\ Len(log[1]) = 2 /\ log[1][1].err = {"rate limit"}
    /\ log[1][2].k = "error" /\ log[1][2].err = {"quota"}
    /\ Raised(1, 402, "QuotaExceeded")

ReturnedText(e) == e.k \in {"malformed", "json"}

\* C7: the first call uses the ceiling 200; a text that does not parse at
\* 200 is followed by a call at 320, and at 320 by the status-500
\* InvalidJSON failure; the ceiling changes only after such a text and only
\* upwards, a ceiling returns at most one text, and no call follows a text
\* that parsed.
C7_CeilingEscalation ==
    \A p \in Procs :
        /\ log[p] # <<>> => log[p][1].max_tokens = 200
        /\ \A i \in DOMAIN log[p] :
              /\ log[p][i].max_tokens \in {200, 320}
              /\ (log[p][i].k = "malformed" /\ log[p][i].max_tokens = 200) =>
                    IF i < Len(log[p]) THEN log[p][i + 1].max_tokens = 320
                    ELSE pc[p] \in {"parse", "call"}
              /\ (log[p][i].k = "malformed" /\ log[p][i].max_tokens = 320) =>
                    i = Len(log[p]) /\ (pc[p] = "parse" \/ Raised(p, 500, "InvalidJSON"))
              /\ (i < Len(log[p]) /\ log[p][i + 1].max_tokens # log[p][i].max_tokens) =>
                    log[p][i].k = "malformed" /\ log[p][i + 1].max_tokens > log[p][i].max_tokens
              /\ log[p][i].k = "json" => i = Len(log[p])
        /\ \A c \in {200, 320} :
              Cardinality({i \in CallsAt(p, c) : ReturnedText(log[p][i])}) <= 1

\* unparsable text at 200 and again at 320
C7_Witness ==
    /\ Len(log[1]) = 2 /\ Raised(1, 500, "InvalidJSON")
    /\ log[1][1].k = "malformed" /\ log[1][1].max_tokens = 200
    /\ log[1][2].k = "malformed" /\ log[1][2].max_tokens = 320

\* the keys of a parsed value: those of an object, none otherwise
KeysOf(v) == IF v.t = "obj" THEN v.has ELSE {}
ListUnder(v, k) == v.t = "obj" /\ v.f[k].t \in {"list", "badlist"}

\* the step fails generate with HTTPException(500, detail) and makes no call
FailsWith(p, detail) ==
    /\ pc'[p] = "done" /\ ret'[p].kind = "http"
    /\ ret'[p].status = 500 /\ ret'[p].detail = detail
    /\ log'[p] = log[p]

\* C8 as claimed: a text that parsed as JSON is checked for the four keys
\* (MissingFields naming exactly the missing ones), then for objectives and
\* plan being lists (WrongType), then for at least 1 objective and 2 plan
\* entries (InsufficientContent); the first violated check fails generate
\* with status 500 and no further call.
C8_StructuralChecks ==
    [][\A p \in Procs :
          (pc[p] = "parse" /\ content[p].k = "json" /\ pc'[p] # "parse") =>
              LET v == content[p].v
              IN  IF KeysOf(v) # FieldSet
                  THEN FailsWith(p, "MissingFields") /\ ret'[p].fields = FieldSet \ KeysOf(v)
                  ELSE IF ~ListUnder(v, "objectives") \/ ~ListUnder(v, "plan")
                  THEN FailsWith(p, "WrongType")
                  ELSE IF v.f.objectives.n < 1 \/ v.f.plan.n < 2
                  THEN FailsWith(p, "InsufficientContent")
                  ELSE TRUE]_vars

EmptyText(e) == e.k \in {"none", "empty", "blank"}

\* C9: a call that returns no text, empty text or whitespace-only text is
\* the last call of its generate, which fails with the status-500
\* empty-response failure: no retry, no larger ceiling.
C9_EmptyResponseFatal ==
    \A p \in Procs :
        \A i \in DOMAIN log[p] :
            EmptyText(log[p][i]) =>
                i = Len(log[p]) /\ Raised(p, 500, "EmptyResponse")

\* whitespace-only text at the first call
C9_Witness ==
    /\ Len(log[1]) = 1 /\ log[1][1].k = "blank" /\ sleeps[1] = 0
    /\ Raised(1, 500, "EmptyResponse")

\* C10 as claimed: whatever the remote call produces, a generate that does
\* not return a lesson has raised an HTTPException with a status code.
C10_OnlyTypedFailures ==
    \A p \in Procs :
        pc[p] = "done" => ret[p].kind \in {"ok", "http"} /\ (ret[p].kind = "http" => ret[p].status > 0)

\* C11: in every reachable state every Request row has at least one Lesson
\* row and every Lesson row references a stored Request; a persist that
\* raises leaves both tables as they were and its exception reaches the
\* caller of create.
C11_AtomicPersist ==
    /\ [](/\ \A i \in DOMAIN requests : LessonsOf(requests[i].id) # {}
          /\ \A j \in DOMAIN lessons : \E i \in DOMAIN requests : requests[i].id = lessons[j].request_id)
    /\ [][\A p \in Procs :
          (pc[p] = "generated" /\ pc'[p] = "done" /\ ret'[p].kind # "ok") =>
              /\ requests' = requests /\ lessons' = lessons
              /\ ret'[p].kind = "escape"]_vars

\* a persist has raised while the store holds the pair of an earlier create
C11_Witness ==
    /\ \E p \in Procs : pc[p] = "done" /\ ret[p] = Escaped("SQLAlchemyError")
    /\ Len(requests) = 1 /\ Len(lessons) = 1
    /\ nextId = 5

\* the lookup of caller p runs in this step
LookupRuns(p) == pc[p] = "lookup" /\ pc'[p] # "lookup"

\* C12: a lookup that finds a stored artifact for the hash of the request
\* ends the create with the id and title of a stored lesson of that hash,
\* from_cache = true and tokens_used = 0, after no remote call and without
\* adding a row; a create that missed and whose generate succeeded returns
\* from_cache = false and as tokens_used the number generate returned, which
\* is the usage the last remote call reported.
C12_CacheHitAndMissResults ==
    [][\A p \in Procs :
          /\ (LookupRuns(p) /\ LessonsWithHash(hash[p]) # {}) =>
                /\ pc'[p] = "done" /\ ret'[p].kind = "ok"
                /\ \E i \in LessonsWithHash(hash[p]) :
                      ret'[p].lesson_id = lessons[i].id /\ ret'[p].title = lessons[i].title
                /\ ret'[p].from_cache /\ ret'[p].tokens_used = 0
                /\ log[p] = <<>> /\ log'[p] = <<>>
                /\ requests' = requests /\ lessons' = lessons
          /\ (CreateReturns(p) /\ pc[p] = "generated") =>
                /\ ~ret'[p].from_cache
                /\ ret'[p].tokens_used = total_tokens[p]
                /\ ret'[p].tokens_used = log[p][Len(log[p])].usage]_vars

\* a create that generated with 150 tokens, then the same request served
\* from the store
C12_Witness ==
    /\ started = 2 /\ pc[1] = "done" /\ ret[1].kind = "ok" /\ ret[1].from_cache
    /\ ret[1].tokens_used = 0 /\ log[1] = <<>>
    /\ Len(lessons) = 1 /\ ret[1].lesson_id = lessons[1].id

(***************************************************************************)
(* Properties of the stored artifacts and of GET /v1/lessons/{id}.         *)
(***************************************************************************)
\* the row is still in the table after the step
SameRowAfter(row, tableAfter) ==
    \E j \in DOMAIN tableAfter : tableAfter[j] = row

\* C13: no step of a create or of a get changes or deletes a stored row:
\* every Request row (id, hash, subject, audience, duration) and every
\* Lesson row (id, request, title, markdown, objectives, plan, creation time)
\* is found unchanged, at its place, after the step, and a get leaves both
\* tables as they are.
C13_StoredNeverMutated ==
    [][/\ \A i \in DOMAIN requests : i \in DOMAIN requests' /\ requests'[i] = requests[i]
       /\ \A i \in DOMAIN lessons : i \in DOMAIN lessons' /\ lessons'[i] = lessons[i]
       /\ \A i \in DOMAIN requests : SameRowAfter(requests[i], requests')
       /\ \A i \in DOMAIN lessons : SameRowAfter(lessons[i], lessons')
       /\ (resp' # resp) => (requests' = requests /\ lessons' = lessons)]_vars

\* a second artifact was stored beside the first, which was then read back
C13_Witness ==
    /\ Len(requests) = 2 /\ Len(lessons) = 2
    /\ got[1].keys # {} /\ got[1].id = lessons[1].id
    /\ got[1].content = lessons[1].content_md

\* a lesson has its title, its content, 1 objective and 2 plan entries
Populated(title, body, objectives, plan) ==
    title # 0 /\ body # 0 /\ Len(objectives) >= 1 /\ Len(plan) >= 2

\* C14: the lesson a generate has returned and every stored Lesson row has
\* a title, a content, at least 1 objective and at least 2 plan entries.
C14_StructuralMinimum ==
    /\ \A p \in Procs :
          pc[p] = "generated" =>
              Populated(gen[p].title, gen[p].content, gen[p].objectives, gen[p].plan)
    /\ \A i \in DOMAIN lessons :
          /\ \E k \in DOMAIN lessons[i].content_md :
                /\ lessons[i].content_md[k].kind = "text"
                /\ Populated(lessons[i].title, lessons[i].content_md[k].text,
                             lessons[i].objectives, lessons[i].plan)
          /\ lessons[i].content_md[1] = Line("h1", 0, lessons[i].title)

\* the second create stored a lesson, the first one having failed
C14_Witness ==
    /\ started = 2 /\ Len(lessons) = 1 /\ pc[1] = "done" /\ ret[1].kind = "ok"
    /\ ~ret[1].from_cache /\ Len(lessons[1].objectives) = 1 /\ Len(lessons[1].plan) = 2

\* C15: a get for an id that no stored lesson has returns None, the endpoint
\* answers 404 and not 500, nothing is raised in the caller, and both tables
\* stay as they are; None is returned for such ids only.
C15_UnknownIdNotFound ==
    /\ [](\A p \in Procs :
            /\ resp[p].status = 404 <=> (resp[p].status # 0 /\ got[p] = None)
            /\ (got[p] # None) => got[p].id \in ({lessons[i].id : i \in DOMAIN lessons}))
    /\ [][\A p \in Procs :
            ((resp'[p] # resp[p] /\ pc'[p] = pc[p]) /\ got'[p] = None) =>
                /\ resp'[p].status = 404
                /\ ret'[p] = ret[p]
                /\ requests' = requests /\ lessons' = lessons /\ nextId' = nextId]_vars

\* a get for the id of a Request row, which is no lesson id, while a lesson
\* is stored
C15_Witness ==
    /\ Len(lessons) = 1 /\ resp[1].status = 404 /\ got[1] = None

\* C16 as claimed: after a GET of a stored lesson id the response has status
\* 200 and carries the id, title, Markdown, objectives, plan and creation
\* time of the stored row with that id.
C16_GetAfterCreate ==
    \A p \in Procs :
        (got[p] # None) =>
            /\ resp[p].status = 200
            /\ \E i \in DOMAIN lessons :
                  /\ lessons[i].id = resp[p].body.id
                  /\ lessons[i].title = resp[p].body.title
                  /\ lessons[i].content_md = resp[p].body.content
                  /\ lessons[i].objectives = resp[p].body.objectives
                  /\ lessons[i].plan = resp[p].body.plan
                  /\ lessons[i].created_at = resp[p].body.created_at

(***************************************************************************)
(* Properties of the functions called on their own.                        *)
(***************************************************************************)
\* C17 as claimed: LessonRequest accepts a subject exactly when its
\* whitespace-normalized form has 2 to 200 characters, and the accepted
\* request holds that normalized form.
C17_AcceptsIffNormalizedInRange ==
    (call.fn = "LessonRequest" /\ call.done) =>
        LET normalized == Join(Split(call.raw.subject))
        IN  /\ result.kind = "ok" <=> (Len(normalized) >= 2 /\ Len(normalized) <= 200)
            /\ result.kind = "ok" => result.value.subject = normalized

\* C18 as claimed: with a context or without one, validate_prompt_budget
\* raises HTTPException(413) exactly when the estimate of the prompt is
\* above 1800, and returns otherwise.
C18_Raises413IffOverBudget ==
    (call.fn = "validate_prompt_budget" /\ call.done) =>
        IF estimate_tokens(call.cleanedLen) > 1800
        THEN result.kind = "http" /\ result.status = 413
        ELSE result = NoRet

\* number of characters left when leading and trailing whitespace is
\* dropped and every inner run of whitespace counts for one
CleanedLength(text) == Len(Join(Split(text)))

\* C19: estimate_tokens is 0 for an empty or whitespace-only text; for any
\* other text of cleaned length L it is the integer k with
\* k <= 1.2 * (L div 4) < k + 1.
C19_EstimateFormula ==
    (call.fn = "estimate_tokens" /\ call.done) =>
        IF (\A i \in DOMAIN call.text : call.text[i] \in {" ", "\n"}) THEN result = 0
        ELSE LET q == CleanedLength(call.text) \div 4
             IN  10 * result <= 12 * q /\ 12 * q < 10 * (result + 1)

\* 22 cleaned characters with whitespace runs around and inside: 5 groups of
\* 4, estimated at 6
C19_Witness ==
    /\ call.fn = "estimate_tokens" /\ call.done /\ result = 6
    /\ Len(call.text) > CleanedLength(call.text) /\ CleanedLength(call.text) = 22

\* C20: for every text and each of the three audiences the scorer returns a
\* score, which lies in [0, 100]; the score is 0 when the word count or the
\* sentence count is 0, as it is for every text without a letter; for the
\* empty text the two counts and the two averages are 0 as well.
C20_ScoreBounded ==
    (/\ call.fn = "validate_readability_for_audience" /\ call.done
     /\ call.audience \in {"enfant", "lycéen", "adulte"}) =>
        LET fk == result.flesch_kincaid
        IN  /\ result.kind = "ok"
            /\ fk.den > 0 /\ 0 <= fk.num /\ fk.num <= 100 * fk.den
            /\ (result.stats.word_count = 0 \/ result.stats.sentence_count = 0) => fk.num = 0
            /\ (\A i \in DOMAIN call.text : call.text[i] \notin {"a", "A", "b"}) =>
                  (result.stats.word_count = 0 /\ fk.num = 0)
            /\ call.text = <<>> =>
                  /\ result.stats.word_count = 0 /\ result.stats.sentence_count = 0
                  /\ result.stats.avg_words_per_sentence.num = 0
                  /\ result.stats.avg_syllables_per_word.num = 0

\* a text with one sentence and no word scores 0
C20_Witness ==
    /\ call.fn = "validate_readability_for_audience" /\ call.done
    /\ call.audience = "enfant" /\ result.kind = "ok"
    /\ result.stats.sentence_count = 1 /\ result.stats.word_count = 0
    /\ result.flesch_kincaid.num = 0

\* C21: the scorer marks a text acceptable if and only if its score lies in
\* the band of the audience (enfant [80, 100], lycéen [60, 80], adulte
\* [40, 70]); the message is "adapted" when acceptable, "too difficult" when
\* the score is below the band and "very easy" when it is above; an audience
\* outside the three fails with the unsupported-audience error and nothing
\* is computed.
C21_BandAndMessage ==
    (call.fn = "validate_readability_for_audience" /\ call.done) =>
        IF call.audience \notin {"enfant", "lycéen", "adulte"}
        THEN /\ result.kind = "ValueError"
             /\ result.stats = NoStats /\ result.flesch_kincaid = Zero
        ELSE LET fk == result.flesch_kincaid
                 lo == CASE call.audience = "enfant" -> 80
                         [] call.audience = "lycéen" -> 60
                         [] OTHER -> 40
                 hi == CASE call.audience = "enfant" -> 100
                         [] call.audience = "lycéen" -> 80
                         [] OTHER -> 70
                 below == fk.num < lo * fk.den
                 above == fk.num > hi * fk.den
             IN  /\ result.kind = "ok"
                 /\ result.audience_target = call.audience
                 /\ result.is_valid_for_audience <=> (~below /\ ~above)
                 /\ result.message = "adapted" <=> (~below /\ ~above)
                 /\ result.message = "too difficult" <=> below
                 /\ result.message = "very easy" <=> above

\* an adult text scored strictly inside its band
C21_Witness ==
    /\ call.fn = "validate_readability_for_audience" /\ call.done
    /\ call.audience = "adulte" /\ result.message = "adapted"
    /\ result.is_valid_for_audience
    /\ result.flesch_kincaid.num > 40 * result.flesch_kincaid.den
    /\ result.flesch_kincaid.num < 70 * result.flesch_kincaid.den

\* comparison of two fractions with positive denominators
FracLess(x, y) == x.num * y.den < y.num * x.den

\* comparison of two scores: an unclamped score has a denominator that is a
\* multiple of 1000, a clamped one has denominator 1
ScoreLess(x, y) ==
    LET scaled(f) == IF f.den = 1 THEN Fraction(f.num * 1000, 1000) ELSE f
    IN  scaled(x).num * (scaled(y).den \div 1000) < scaled(y).num * (scaled(x).den \div 1000)

\* text a has at least one word and one sentence, as text b has, and fewer
\* words per sentence and fewer syllables per word than text b
SimplerThan(a, b) ==
    /\ a.stats.word_count >= 1 /\ a.stats.sentence_count >= 1
    /\ b.stats.word_count >= 1 /\ b.stats.sentence_count >= 1
    /\ FracLess(a.stats.avg_words_per_sentence, b.stats.avg_words_per_sentence)
    /\ FracLess(a.stats.avg_syllables_per_word, b.stats.avg_syllables_per_word)

\* C22 as stated: when text a has fewer words per sentence and fewer
\* syllables per word than text b, the score of a is strictly higher than
\* the score of b.
C22_StrictlyHigher ==
    (call.fn = "calculate_flesch_kincaid_french" /\ call.done
        /\ SimplerThan(result.a, result.b)) => ScoreLess(result.b.score, result.a.score)

\* C22 amended: when text a has fewer words per sentence and fewer syllables
\* per word than text b, the score of a is never lower than the score of b,
\* and it is strictly higher unless both scores are clamped to 100 or both
\* are clamped to 0.
C22_HigherUnlessClamped ==
    (call.fn = "calculate_flesch_kincaid_french" /\ call.done
        /\ SimplerThan(result.a, result.b)) =>
        /\ ~ScoreLess(result.a.score, result.b.score)
        /\ \/ ScoreLess(result.b.score, result.a.score)
           \/ result.a.score = Fraction(100, 1) /\ result.b.score = Fraction(100, 1)
           \/ result.a.score = Zero /\ result.b.score = Zero

\* two texts in that relation whose scores lie strictly between 0 and 100
C22_Witness ==
    /\ call.fn = "calculate_flesch_kincaid_french" /\ call.done
    /\ SimplerThan(result.a, result.b)
    /\ result.a.score.den > 1 /\ result.b.score.den > 1
    /\ result.b.score.num > 0
    /\ ScoreLess(result.b.score, result.a.score)

\* C23: format_lesson returns as readability the summary of the score of the
\* base document for the audience, the base document being the title
\* heading, the objectives as bullets in order, the plan numbered from 1 in
\* order and the content verbatim, without a metrics section; its markdown
\* is that base document followed by the metrics section, which lists each
\* key of that same summary with its value.
C23_TwoPasses ==
    (call.fn = "format_lesson" /\ call.done /\ call.audience \in Audiences) =>
        LET c == call.content
            md == result.markdown
            no == Len(c.objectives)
            np == Len(c.plan)
            base == SubSeq(md, 1, no + np + 9)
        IN  /\ result.kind = "ok" /\ result.title = c.title
            /\ Len(md) = Len(base) + Len(SummaryKeys) + 2
            /\ base[1] = Line("h1", 0, c.title)
            /\ base[3] = Line("h2 objectifs", 0, 0)
            /\ \A i \in 1..no : base[3 + i] = Line("bullet", 0, c.objectives[i])
            /\ base[5 + no] = Line("h2 plan", 0, 0)
            /\ \A i \in 1..np : base[5 + no + i] = Line("numbered", i, c.plan[i])
            /\ base[7 + no + np] = Line("h2 contenu", 0, 0)
            /\ base[8 + no + np] = Line("text", 0, c.content)
            /\ \A i \in {2, 4 + no, 6 + no + np, 9 + no + np} : base[i] = Blank
            /\ result.readability = ReadabilitySummaryOf(base, call.audience)
            /\ md[Len(base) + 1] = Line("h2 metriques", 0, 0)
            /\ \A k \in DOMAIN SummaryKeys :
                  md[Len(base) + 1 + k] = MetricLine(SummaryKeys[k], result.readability)
            /\ md[Len(md)] = Blank

\* a lesson whose objectives are not in the order of their numbers and
\* whose plan has three entries has been formatted
C23_Witness ==
    /\ call.fn = "format_lesson" /\ call.done /\ call.audience = "lycéen"
    /\ call.content.objectives = <<2, 1>> /\ Len(call.content.plan) = 3
    /\ result.kind = "ok" /\ Len(result.markdown) = 22

\* the first call with ceiling c failed with a transient error and was
\* retried, or its retry is pending
RetriedAt(p, c) ==
    \A i \in CallsAt(p, c) :
        (i = Min(CallsAt(p, c)) /\ TransientError(log[p][i])) =>
            CalledAgain(p, i) \/ (i = Len(log[p]) /\ pc[p] = "call")

\* C24: a generate makes at most 4 remote calls, at most 2 with each of the
\* 2 ceilings, and sleeps at most twice; a transient error at the first
\* call of a ceiling is retried whether or not the other ceiling used its
\* retry; every generate that has started ends, with the content returned
\* or with an exception raised.
C24_BoundedTermination ==
    /\ [](/\ Len(log[1]) <= 4 /\ sleeps[1] <= 2
          /\ \A c \in {200, 320} : Cardinality(CallsAt(1, c)) <= 2
          /\ DOMAIN log[1] = CallsAt(1, 200) \cup CallsAt(1, 320))
    /\ [](RetriedAt(1, 200) /\ RetriedAt(1, 320))
    /\ [](pc[1] = "generated" => (gen[1] # NoContent /\ ret[1] = NoRet))
    /\ [](pc[1] = "done" => (gen[1] = NoContent /\ ret[1].kind \in {"http", "escape"}))
    /\ (pc[1] = "budget") ~> Finished(1)

\* four calls and two sleeps: each ceiling retried a transient error
C24_Witness ==
    /\ Finished(1) /\ Len(log[1]) = 4 /\ sleeps[1] = 2
    /\ TransientError(log[1][1]) /\ log[1][2].k = "malformed"
    /\ TransientError(log[1][3]) /\ log[1][3].max_tokens = 320

\* C28: the token count a generate returns with its content is the count
\* reported by its last remote call, 0 when that call reported none; the
\* counts of earlier calls, whose text did not parse or which failed, are
\* not part of it.
C28_TokensOfFinalCall ==
    \A p \in Procs :
        pc[p] = "generated" =>
            /\ log[p] # <<>> /\ LastCall(p).k = "json"
            /\ total_tokens[p] = LastCall(p).usage

\* a text that did not parse at 200 reported 90 tokens, the lesson returned
\* at 320 reported 150
C28_Witness ==
    /\ pc[1] = "generated" /\ Len(log[1]) = 2
    /\ log[1][1].k = "malformed" /\ log[1][1].usage = 90
    /\ log[1][2].usage = 150 /\ total_tokens[1] = 150

\* the Lesson rows with this id that belong to a Request row with hash h,
\* in the tables after the step
StoredAfter(id, h) ==
    {i \in DOMAIN lessons' :
        /\ lessons'[i].id = id
        /\ \E r \in DOMAIN requests' :
              requests'[r].id = lessons'[i].request_id /\ requests'[r].input_hash = h}

\* C25: under every interleaving of the creates of two callers, a create
\* that returns its dictionary returns the id of a stored Lesson that
\* belongs to a Request whose hash is the hash of the request it was given,
\* also when both callers missed the lookup for the same request.
C25_ReturnedIdIsStored ==
    [][\A p \in Procs :
          CreateReturns(p) =>
              StoredAfter(ret'[p].lesson_id, _compute_request_hash(req[p])) # {}]_vars

\* both callers missed the lookup for one hash, generated and stored, and
\* each returned its own lesson
C25_Witness ==
    /\ pc[1] = "done" /\ pc[2] = "done" /\ ret[1].kind = "ok" /\ ret[2].kind = "ok"
    /\ ~ret[1].from_cache /\ ~ret[2].from_cache
    /\ Len(requests) = 2 /\ requests[1].input_hash = requests[2].input_hash
    /\ ret[1].lesson_id # ret[2].lesson_id

\* C26: a create that raises, in the budget check, in the remote call, in
\* the parsing and validation or in the transaction that persists, leaves
\* both tables as they were, and only a create that returns adds rows; after
\* a create has raised, no Request and no Lesson is stored for its request,
\* and a lookup that finds nothing for a request goes on to generate.
C26_FailureStoresNothing ==
    /\ [][/\ \A p \in Procs :
              (pc[p] # "done" /\ pc'[p] = "done" /\ ret'[p].kind # "ok") =>
                  (requests' = requests /\ lessons' = lessons)
          /\ (requests' # requests \/ lessons' # lessons) => \E p \in Procs : CreateReturns(p)
          /\ \A p \in Procs :
              (LookupRuns(p) /\ RequestsWithHash(hash[p]) = {}) =>
                  (pc'[p] = "budget" /\ ret'[p] = NoRet /\ log'[p] = <<>>)]_vars
    /\ [](\A p \in Procs :
            (pc[p] = "done" /\ ret[p].kind \in {"http", "escape"}) =>
                LET h == _compute_request_hash(LessonRequest(rawreq[p]))
                IN  RequestsWithHash(h) = {} /\ LessonsWithHash(h) = {})

\* the first create raised while persisting and stored nothing; the second
\* create missed the lookup and has generated again
C26_Witness ==
    /\ started = 2 /\ requests = <<>> /\ lessons = <<>> /\ nextId > 1
    /\ pc[1] = "generated" /\ log[1] # <<>>

C29_OneSessionPerToken ==
    /\ [](\A i \in DOMAIN login_tokens :
            Cardinality({j \in DOMAIN sessions : sessions[j].via = login_tokens[i].token}) <= 1)
    /\ [][/\ sessions' # sessions =>
                \E i \in DOMAIN login_tokens :
                    /\ sessions' = Append(sessions, sessions'[Len(sessions')])
                    /\ sessions'[Len(sessions')].via = login_tokens[i].token
                    /\ login_tokens[i].redeemed_at = NoTime
                    /\ login_tokens[i].expires_at > now
          /\ \A p \in Procs :
                callback'[p].status = 400 /\ callback'[p] # callback[p] =>
                    sessions' = sessions /\ login_tokens' = login_tokens]_vars

\* the prompt lengths of the valid requests: a subject of 2 to 200
\* characters, an audience and a duration of the fixed sets
ValidPromptLens ==
    {BuildPromptLen(n, a, d) :
        n \in SUBJECT_MIN_LENGTH..SUBJECT_MAX_LENGTH, a \in Audiences, d \in Durations}

\* C30: the prompt generate_lesson builds for a valid request is estimated
\* at no more than 1800 tokens, and the budget check of such a generate
\* does not raise: once it has run, the generate is not in the status-413
\* failure.
C30_ValidRequestWithinBudget ==
    \A p \in Procs :
        (pc[p] # "ready" /\ promptLen[p] \in ValidPromptLens) =>
            /\ estimate_tokens(promptLen[p]) <= 1800
            /\ ~Raised(p, 413, "RequestTooLarge")
            /\ pc[p] = "done" => log[p] # <<>>

\* the budget check has passed the longest prompt of a valid request
C30_Witness ==
    /\ pc[1] = "call" /\ log[1] = <<>>
    /\ promptLen[1] = BuildPromptLen(200, "lycéen", "medium")
    /\ \A n \in ValidPromptLens : n <= promptLen[1]

====
